---------------------------- MODULE Spec2Model ----------------------------
(***************************************************************************)
(* State-machine model of the ColorClash GameEngine                        *)
(* (client/src/components/SimulationGame.tsx, class GameEngine) and of the *)
(* canvas host that drives it (client/src/components/GameCanvas.tsx), and  *)
(* of the component SimulationGame that keeps the bets and the bank.       *)
(*                                                                         *)
(* Numbers.  The engine computes in IEEE doubles.  The model computes in   *)
(* fixed point: every length, coordinate and velocity is an integer number *)
(* of 1/100 pixel (so CIRCLE_SIZE = 25 px is 2500), every arithmetic       *)
(* result is rounded to the nearest grid value (RDiv, Sqrt), and           *)
(* comparisons that the code makes on a square root are made exactly on    *)
(* the squares.  Particle lifetimes are integers in 1/240 second.          *)
(* Math.random() is a draw from Rand (k stands for k/8), and a handler     *)
(* that draws several numbers reads them from one stream (StartStreams,    *)
(* FrameStreams).                                                          *)
(***************************************************************************)
EXTENDS Integers, Sequences, FiniteSets, TLC

(***************************************************************************)
(* Bounds of the model.                                                    *)
(***************************************************************************)
\* Agents seeded per color by createCircleGroup (100 in the source, line 540).
INITIAL_CIRCLES_PER_COLOR == 1
\* Frames executed after construction.
MaxFrames == 3
\* Calls of startGame after construction.
MaxRuns == 2
\* Circles of a configuration the operations are applied to one at a time.
MaxUnitCircles == 3

(***************************************************************************)
(* Program constants, in 1/100 px (SimulationGame.tsx lines 539-545).      *)
(***************************************************************************)
CIRCLE_SIZE == 2500
SPEED == 250
SPREAD_RADIUS == 8000
MAGNETIC_RANGE == 7500
ATTRACTION_FORCE == 15
REPULSION_FORCE == 20

Colors == {"blue", "red", "green"}
\* Key order of the counts object of getColorCounts.
ColorOrder == <<"blue", "red", "green">>
Shapes == <<"square", "circle", "hexagon", "triangle">>
Sizes == <<"small", "medium", "large">>

(***************************************************************************)
(* Fixed-point arithmetic.                                                 *)
(***************************************************************************)
Abs(n) == IF n < 0 THEN -n ELSE n

Max(a, b) == IF a >= b THEN a ELSE b

Min(a, b) == IF a <= b THEN a ELSE b

\* a / b rounded to the nearest integer, halves away from zero (b > 0).
RDiv(a, b) ==
    LET q == (Abs(a) + (b \div 2)) \div b
    IN  IF a < 0 THEN -q ELSE q

RECURSIVE SqrtIter(_, _, _)
\* Largest r in lo..hi-1 with r*r <= n, given lo*lo <= n < hi*hi.
SqrtIter(n, lo, hi) ==
    IF hi - lo <= 1 THEN lo
    ELSE LET mid == (lo + hi) \div 2
         IN  IF mid * mid <= n THEN SqrtIter(n, mid, hi)
             ELSE SqrtIter(n, lo, mid)

\* Math.sqrt rounded to the nearest grid value (n >= 0).
Sqrt(n) ==
    LET r == SqrtIter(n, 0, 46341)
    IN  IF n - r * r > r THEN r + 1 ELSE r

\* Math.random(): k stands for the value k/8.
Rand == 0 .. 7

\* cos and sin of the angle Math.random() * Math.PI * 2, times 1000.
CosTable == <<1000, 707, 0, -707, -1000, -707, 0, 707>>

Cos(k) == CosTable[(k % 8) + 1]

Sin(k) == CosTable[((k + 6) % 8) + 1]


\* cos and sin of the angle (i / 6) * Math.PI * 2, times 1000.
CosSixth == <<1000, 500, -500, -1000, -500, 500>>

SinSixth == <<0, 866, 866, 0, -866, -866>>

(***************************************************************************)
(* Random numbers: the k-th Math.random() of a handler, read from the      *)
(* stream st (a tuple over Rand, read cyclically).                         *)
(***************************************************************************)
Draw(st, k) == st[(k % Len(st)) + 1]

(***************************************************************************)
(* The dominance relation.                                                 *)
(***************************************************************************)
\* getColorRelationship with the green rows exchanged (green chases red).
getColorRelationship_GreenSwapped(currentColor, otherColor) ==
    IF currentColor = "blue" /\ otherColor = "red" THEN "attraction"
    ELSE IF currentColor = "blue" /\ otherColor = "green" THEN "repulsion"
    ELSE IF currentColor = "green" /\ otherColor = "red" THEN "attraction"
    ELSE IF currentColor = "green" /\ otherColor = "blue" THEN "repulsion"
    ELSE IF currentColor = "red" /\ otherColor = "green" THEN "attraction"
    ELSE IF currentColor = "red" /\ otherColor = "blue" THEN "repulsion"
    ELSE "neutral"

getColorRelationship(currentColor, otherColor) ==
    IF currentColor = "blue" /\ otherColor = "red" THEN "attraction"
    ELSE IF currentColor = "blue" /\ otherColor = "green" THEN "repulsion"
    ELSE IF currentColor = "green" /\ otherColor = "blue" THEN "attraction"
    ELSE IF currentColor = "green" /\ otherColor = "red" THEN "repulsion"
    ELSE IF currentColor = "red" /\ otherColor = "green" THEN "attraction"
    ELSE IF currentColor = "red" /\ otherColor = "blue" THEN "repulsion"
    ELSE "neutral"

\* resolveBattle whose second test leaves out "green beats blue".
resolveBattle_MissingPair(circle1, circle2) ==
    IF \/ (circle1.color = "blue" /\ circle2.color = "red")
       \/ (circle1.color = "green" /\ circle2.color = "blue")
       \/ (circle1.color = "red" /\ circle2.color = "green")
    THEN [winner |-> <<circle1>>, loser |-> <<circle2>>]
    ELSE IF \/ (circle2.color = "blue" /\ circle1.color = "red")
            \/ (circle2.color = "red" /\ circle1.color = "green")
    THEN [winner |-> <<circle2>>, loser |-> <<circle1>>]
    ELSE [winner |-> <<>>, loser |-> <<>>]

\* The result of resolveBattle: winner and loser are <<circle>>, or <<>> for null.
\* Variant of resolveBattle with winner and loser exchanged.
resolveBattle_Reversed(circle1, circle2) ==
    IF \/ (circle1.color = "blue" /\ circle2.color = "red")
       \/ (circle1.color = "green" /\ circle2.color = "blue")
       \/ (circle1.color = "red" /\ circle2.color = "green")
    THEN [winner |-> <<circle2>>, loser |-> <<circle1>>]
    ELSE IF \/ (circle2.color = "blue" /\ circle1.color = "red")
            \/ (circle2.color = "green" /\ circle1.color = "blue")
            \/ (circle2.color = "red" /\ circle1.color = "green")
    THEN [winner |-> <<circle1>>, loser |-> <<circle2>>]
    ELSE [winner |-> <<>>, loser |-> <<>>]

resolveBattle(circle1, circle2) ==
    IF \/ (circle1.color = "blue" /\ circle2.color = "red")
       \/ (circle1.color = "green" /\ circle2.color = "blue")
       \/ (circle1.color = "red" /\ circle2.color = "green")
    THEN [winner |-> <<circle1>>, loser |-> <<circle2>>]
    ELSE IF \/ (circle2.color = "blue" /\ circle1.color = "red")
            \/ (circle2.color = "green" /\ circle1.color = "blue")
            \/ (circle2.color = "red" /\ circle1.color = "green")
    THEN [winner |-> <<circle2>>, loser |-> <<circle1>>]
    ELSE [winner |-> <<>>, loser |-> <<>>]

(***************************************************************************)
(* Collision detection and the bounce.                                     *)
(***************************************************************************)
Dist2(dx, dy) == dx * dx + dy * dy

\* isColliding that also counts touching circles (<= for <).
isColliding_Touching(circle1, circle2) ==
    Dist2(circle1.x - circle2.x, circle1.y - circle2.y)
       <= RDiv(circle1.size + circle2.size, 2) * RDiv(circle1.size + circle2.size, 2)

\* distance < minDistance, decided on the squares.
isColliding(circle1, circle2) ==
    LET dx == circle1.x - circle2.x
        dy == circle1.y - circle2.y
        minDistance == RDiv(circle1.size + circle2.size, 2)
    IN  Dist2(dx, dy) < minDistance * minDistance

\* BounceOne that leaves the circle where it is (without lines 1064-1073).
BounceOne_Unseparated(c, nX, nY, sepX, sepY) ==
    [c EXCEPT !.vx = IF Sqrt(Dist2(c.vx - RDiv(2 * (c.vx * nX + c.vy * nY) * nX, 1000000),
                                   c.vy - RDiv(2 * (c.vx * nX + c.vy * nY) * nY, 1000000))) > 0
                     THEN RDiv((c.vx - RDiv(2 * (c.vx * nX + c.vy * nY) * nX, 1000000))
                                  * Sqrt(Dist2(c.vx, c.vy)),
                               Sqrt(Dist2(c.vx - RDiv(2 * (c.vx * nX + c.vy * nY) * nX, 1000000),
                                          c.vy - RDiv(2 * (c.vx * nX + c.vy * nY) * nY, 1000000))))
                     ELSE c.vx - RDiv(2 * (c.vx * nX + c.vy * nY) * nX, 1000000),
              !.vy = IF Sqrt(Dist2(c.vx - RDiv(2 * (c.vx * nX + c.vy * nY) * nX, 1000000),
                                   c.vy - RDiv(2 * (c.vx * nX + c.vy * nY) * nY, 1000000))) > 0
                     THEN RDiv((c.vy - RDiv(2 * (c.vx * nX + c.vy * nY) * nY, 1000000))
                                  * Sqrt(Dist2(c.vx, c.vy)),
                               Sqrt(Dist2(c.vx - RDiv(2 * (c.vx * nX + c.vy * nY) * nX, 1000000),
                                          c.vy - RDiv(2 * (c.vx * nX + c.vy * nY) * nY, 1000000))))
                     ELSE c.vy - RDiv(2 * (c.vx * nX + c.vy * nY) * nY, 1000000)]

\* One circle of applyBounce: reflect about the normal (nX, nY, times 1000),
\* restore the speed, move by (sepX, sepY).
BounceOne(c, nX, nY, sepX, sepY) ==
    LET speed == Sqrt(Dist2(c.vx, c.vy))
        dot == c.vx * nX + c.vy * nY
        rvx == c.vx - RDiv(2 * dot * nX, 1000000)
        rvy == c.vy - RDiv(2 * dot * nY, 1000000)
        newSpeed == Sqrt(Dist2(rvx, rvy))
    IN  [c EXCEPT !.vx = IF newSpeed > 0 THEN RDiv(rvx * speed, newSpeed) ELSE rvx,
                  !.vy = IF newSpeed > 0 THEN RDiv(rvy * speed, newSpeed) ELSE rvy,
                  !.x = c.x + sepX,
                  !.y = c.y + sepY]

\* applyBounce that returns at once.
applyBounce_Returns(circle1, circle2) == <<circle1, circle2>>

\* applyBounce: the two circles after the call.
applyBounce(circle1, circle2) ==
    LET dx == circle2.x - circle1.x
        dy == circle2.y - circle1.y
        distance == Sqrt(Dist2(dx, dy))
    IN  IF Dist2(dx, dy) = 0 THEN <<circle1, circle2>>
        ELSE LET nX == RDiv(dx * 1000, distance)
                 nY == RDiv(dy * 1000, distance)
                 overlap == RDiv(circle1.size + circle2.size, 2) - distance
                 sepX == IF overlap > 0 THEN RDiv(nX * overlap, 2000) ELSE 0
                 sepY == IF overlap > 0 THEN RDiv(nY * overlap, 2000) ELSE 0
             IN  <<BounceOne(circle1, nX, nY, -sepX, -sepY),
                   BounceOne(circle2, nX, nY, sepX, sepY)>>

(***************************************************************************)
(* Particles and the split circle.  A particle's id (never read by the     *)
(* engine) is not modelled.                                                *)
(***************************************************************************)
\* Particle i (0-based) of createCollisionParticles; its draws start at k.
CollisionParticle(circle1, circle2, i, st, k) ==
    LET speed == 300 + RDiv(Draw(st, k) * 400, 8)
        size == 300 + RDiv(Draw(st, k + 1) * 400, 8)
        life == 120 + Draw(st, k + 2) * 15
    IN  [x |-> RDiv(circle1.x + circle2.x, 2) + RDiv((Draw(st, k + 3) - 4) * 2000, 8),
         y |-> RDiv(circle1.y + circle2.y, 2) + RDiv((Draw(st, k + 4) - 4) * 2000, 8),
         vx |-> RDiv(CosSixth[i + 1] * speed, 1000),
         vy |-> RDiv(SinSixth[i + 1] * speed, 1000),
         color |-> IF i % 2 = 0 THEN circle1.color ELSE circle2.color,
         size |-> size, life |-> life, maxLife |-> life, type |-> "collision"]

createCollisionParticles(circle1, circle2, st, k) ==
    [i \in 1 .. 6 |-> CollisionParticle(circle1, circle2, i - 1, st, k + 5 * (i - 1))]

\* Particle i (0-based) of createSplitParticles; its draws start at k.
SplitParticle(circle, i, st, k) ==
    LET speed == 200 + RDiv(Draw(st, k) * 300, 8)
        size == 200 + RDiv(Draw(st, k + 1) * 300, 8)
        life == 192 + Draw(st, k + 2) * 21
    IN  [x |-> circle.x + RDiv((Draw(st, k + 3) - 4) * circle.size, 8),
         y |-> circle.y + RDiv((Draw(st, k + 4) - 4) * circle.size, 8),
         vx |-> RDiv(Cos(i) * speed, 1000),
         vy |-> RDiv(Sin(i) * speed, 1000),
         color |-> circle.color,
         size |-> size, life |-> life, maxLife |-> life, type |-> "split"]

createSplitParticles(circle, st, k) ==
    [i \in 1 .. 8 |-> SplitParticle(circle, i - 1, st, k + 5 * (i - 1))]

\* An id no circle of the set `used` has: the model's stand-in for the
\* unique string `${color}-split-${Date.now()}-${Math.random()}`.
FreshId(used) == CHOOSE n \in 1 .. (Cardinality(used) + 1) : n \notin used

\* createSplitCircle; its draws (angle, the id's random, vx, vy) start at k.
\* Variant of createSplitCircle whose clone is red whatever the original.
createSplitCircle_Red(originalCircle, id, st, k) ==
    [id |-> id,
     x |-> originalCircle.x + RDiv(Cos(Draw(st, k)) * 1000, 1000),
     y |-> originalCircle.y + RDiv(Sin(Draw(st, k)) * 1000, 1000),
     vx |-> originalCircle.vx + RDiv((Draw(st, k + 2) - 4) * 100, 8),
     vy |-> originalCircle.vy + RDiv((Draw(st, k + 3) - 4) * 100, 8),
     color |-> "red",
     size |-> CIRCLE_SIZE]

createSplitCircle(originalCircle, id, st, k) ==
    [id |-> id,
     x |-> originalCircle.x + RDiv(Cos(Draw(st, k)) * 1000, 1000),
     y |-> originalCircle.y + RDiv(Sin(Draw(st, k)) * 1000, 1000),
     vx |-> originalCircle.vx + RDiv((Draw(st, k + 2) - 4) * 100, 8),
     vy |-> originalCircle.vy + RDiv((Draw(st, k + 3) - 4) * 100, 8),
     color |-> originalCircle.color,
     size |-> CIRCLE_SIZE]

(***************************************************************************)
(* checkCollisions.  The scan state: cs (this.circles, whose objects the   *)
(* bounce mutates in place), toRemove, toAdd, ps (this.particles), k (the  *)
(* next draw of the stream) and log, a record of every battle for the      *)
(* properties: the pair's indices, the two circles as they were when the   *)
(* pair was reached and as the bounce left them, and the clone.            *)
(***************************************************************************)
Ids(cs) == {cs[n].id : n \in 1 .. Len(cs)}

\* CollideSplit that does not mark the loser for removal.
CollideSplit_KeepsLoser(acc, i, j, before, b, winner, loser, newCircle, st) ==
    [cs |-> [acc.cs EXCEPT ![i] = b[1], ![j] = b[2]],
     toRemove |-> acc.toRemove,
     toAdd |-> Append(acc.toAdd, newCircle),
     ps |-> acc.ps \o createCollisionParticles(b[1], b[2], st, acc.k)
                   \o createSplitParticles(winner, st, acc.k + 30),
     k |-> acc.k + 74,
     log |-> Append(acc.log,
                [i |-> i, j |-> j, winner |-> winner.id, loser |-> loser.id,
                 before |-> before, after |-> b, clone |-> newCircle])]

\* Lines 989-997: the battle has a winner; newCircle is its split.
\* Variant of CollideSplit that removes the loser and adds no clone.
CollideSplit_NoClone(acc, i, j, before, b, winner, loser, newCircle, st) ==
    [cs |-> [acc.cs EXCEPT ![i] = b[1], ![j] = b[2]],
     toRemove |-> acc.toRemove \cup {loser.id},
     toAdd |-> acc.toAdd,
     ps |-> acc.ps \o createCollisionParticles(b[1], b[2], st, acc.k)
                   \o createSplitParticles(winner, st, acc.k + 30),
     k |-> acc.k + 74,
     log |-> Append(acc.log,
                [i |-> i, j |-> j, winner |-> winner.id, loser |-> loser.id,
                 before |-> before, after |-> b, clone |-> newCircle])]

CollideSplit(acc, i, j, before, b, winner, loser, newCircle, st) ==
    [cs |-> [acc.cs EXCEPT ![i] = b[1], ![j] = b[2]],
     toRemove |-> acc.toRemove \cup {loser.id},
     toAdd |-> Append(acc.toAdd, newCircle),
     ps |-> acc.ps \o createCollisionParticles(b[1], b[2], st, acc.k)
                   \o createSplitParticles(winner, st, acc.k + 30),
     k |-> acc.k + 74,
     log |-> Append(acc.log,
                [i |-> i, j |-> j, winner |-> winner.id, loser |-> loser.id,
                 before |-> before, after |-> b, clone |-> newCircle])]

\* Lines 982-998: b is the pair after applyBounce, battle the result of
\* resolveBattle.
CollideBattle(acc, i, j, before, b, battle, st) ==
    IF battle.winner # <<>> /\ battle.loser # <<>>
    THEN CollideSplit(acc, i, j, before, b, battle.winner[1], battle.loser[1],
                      createSplitCircle(battle.winner[1],
                                        FreshId(Ids(acc.cs) \cup Ids(acc.toAdd)),
                                        st, acc.k + 70),
                      st)
    ELSE [acc EXCEPT !.cs = [acc.cs EXCEPT ![i] = b[1], ![j] = b[2]],
                     !.ps = acc.ps \o createCollisionParticles(b[1], b[2], st, acc.k),
                     !.k = acc.k + 30]

\* Lines 980-986: the pair collides and its colors differ.
CollideBounce(acc, i, j, before, b, st) ==
    CollideBattle(acc, i, j, before, b, resolveBattle(b[1], b[2]), st)

\* The inner loop's body without the test of line 978.
CollidePair_NoColorTest(acc, i, j, st) ==
    IF acc.cs[i].id \in acc.toRemove \/ acc.cs[j].id \in acc.toRemove THEN acc
    ELSE IF ~isColliding(acc.cs[i], acc.cs[j]) THEN acc
    ELSE CollideBounce(acc, i, j, <<acc.cs[i], acc.cs[j]>>,
                       applyBounce(acc.cs[i], acc.cs[j]), st)

\* The inner loop's body without the test of line 973.
CollidePair_NoMarkTest(acc, i, j, st) ==
    IF ~isColliding(acc.cs[i], acc.cs[j]) THEN acc
    ELSE IF acc.cs[i].color = acc.cs[j].color THEN acc
    ELSE CollideBounce(acc, i, j, <<acc.cs[i], acc.cs[j]>>,
                       applyBounce(acc.cs[i], acc.cs[j]), st)

\* The body of the inner loop for the pair (i, j), i < j.
CollidePair(acc, i, j, st) ==
    IF acc.cs[i].id \in acc.toRemove \/ acc.cs[j].id \in acc.toRemove THEN acc
    ELSE IF ~isColliding(acc.cs[i], acc.cs[j]) THEN acc
    ELSE IF acc.cs[i].color = acc.cs[j].color THEN acc
    ELSE CollideBounce(acc, i, j, <<acc.cs[i], acc.cs[j]>>,
                       applyBounce(acc.cs[i], acc.cs[j]), st)

RECURSIVE CollideScan(_, _, _, _)
\* The two nested loops, from the pair (i, j) on.
CollideScan(acc, i, j, st) ==
    IF i >= Len(acc.cs) THEN acc
    ELSE IF j > Len(acc.cs) THEN CollideScan(acc, i + 1, i + 2, st)
    ELSE CollideScan(CollidePair(acc, i, j, st), i, j + 1, st)

\* Lines 1005-1009 without the filter of line 1006.
CollideApply_KeepsAll(acc) ==
    [circles |-> acc.cs \o acc.toAdd,
     particles |-> acc.ps,
     k |-> acc.k,
     scanned |-> acc.cs,
     toRemove |-> acc.toRemove,
     toAdd |-> acc.toAdd,
     log |-> acc.log]

\* Lines 1005-1009: the removals and additions after the scan.
CollideApply(acc) ==
    LET Kept(circle) == circle.id \notin acc.toRemove
    IN  [circles |-> SelectSeq(acc.cs, Kept) \o acc.toAdd,
         particles |-> acc.ps,
         k |-> acc.k,
         scanned |-> acc.cs,
         toRemove |-> acc.toRemove,
         toAdd |-> acc.toAdd,
         log |-> acc.log]

\* checkCollisions whose random draws start one later for every particle
\* alive (as if each particle had consumed a draw).
checkCollisions_DrawsPerParticle(cs, ps, st, k) ==
    CollideApply(CollideScan([cs |-> cs, toRemove |-> {}, toAdd |-> <<>>,
                              ps |-> ps, k |-> k + Len(ps), log |-> <<>>], 1, 2, st))

\* checkCollisions on the circles cs and particles ps, drawing from st at k:
\* the circles and particles afterwards, the next draw, and the battle log.
checkCollisions(cs, ps, st, k) ==
    CollideApply(CollideScan([cs |-> cs, toRemove |-> {}, toAdd |-> <<>>,
                              ps |-> ps, k |-> k, log |-> <<>>], 1, 2, st))

(***************************************************************************)
(* The force field.                                                        *)
(***************************************************************************)
\* The contribution of otherCircle to the total force on currentCircle.
ForceFrom(currentCircle, otherCircle) ==
    LET dx == otherCircle.x - currentCircle.x
        dy == otherCircle.y - currentCircle.y
        d2 == Dist2(dx, dy)
        distance == Sqrt(d2)
        relationship == getColorRelationship(currentCircle.color, otherCircle.color)
    IN  IF currentCircle.id = otherCircle.id \/ currentCircle.color = otherCircle.color
        THEN <<0, 0>>
        ELSE IF d2 > MAGNETIC_RANGE * MAGNETIC_RANGE \/ d2 = 0 THEN <<0, 0>>
        ELSE LET nX == RDiv(dx * 1000, distance)
                 nY == RDiv(dy * 1000, distance)
                 attract == RDiv(ATTRACTION_FORCE * 1000 * (MAGNETIC_RANGE - distance),
                                 MAGNETIC_RANGE)
                 repel == RDiv(REPULSION_FORCE * 1000 * (MAGNETIC_RANGE - distance),
                               MAGNETIC_RANGE)
             IN  IF relationship = "attraction"
                 THEN <<RDiv(nX * attract, 1000000), RDiv(nY * attract, 1000000)>>
                 ELSE IF relationship = "repulsion"
                 THEN <<-RDiv(nX * repel, 1000000), -RDiv(nY * repel, 1000000)>>
                 ELSE <<0, 0>>

AddVec(f, g) == <<f[1] + g[1], f[2] + g[2]>>

RECURSIVE TotalForce(_, _, _)
\* The forEach of applyMagneticForces over cs[n ..].
TotalForce(currentCircle, cs, n) ==
    IF n > Len(cs) THEN <<0, 0>>
    ELSE AddVec(ForceFrom(currentCircle, cs[n]), TotalForce(currentCircle, cs, n + 1))

\* this.SPEED * 1.8
MaxSpeed == RDiv(SPEED * 18, 10)

\* ApplyForce without the speed limit of lines 787-791.
ApplyForce_NoLimit(currentCircle, vx, vy) ==
    [currentCircle EXCEPT !.vx = vx, !.vy = vy]

\* Lines 779-791: the accumulated force goes to the velocity, which is
\* then limited to MaxSpeed.
ApplyForce(currentCircle, vx, vy) ==
    IF Dist2(vx, vy) > MaxSpeed * MaxSpeed
    THEN [currentCircle EXCEPT !.vx = RDiv(vx * MaxSpeed, Sqrt(Dist2(vx, vy))),
                               !.vy = RDiv(vy * MaxSpeed, Sqrt(Dist2(vx, vy)))]
    ELSE [currentCircle EXCEPT !.vx = vx, !.vy = vy]

AddForce(currentCircle, total) ==
    ApplyForce(currentCircle, currentCircle.vx + total[1], currentCircle.vy + total[2])

\* applyMagneticForces: currentCircle afterwards, cs being this.circles.
applyMagneticForces(currentCircle, cs) ==
    AddForce(currentCircle, TotalForce(currentCircle, cs, 1))

(***************************************************************************)
(* Arena boundaries.  cv is the canvas, pw and ph are PLAYFIELD_WIDTH and  *)
(* PLAYFIELD_HEIGHT.                                                       *)
(***************************************************************************)
\* The value of 0 / 0.
NaN == "NaN"

\* isNaN: NaN is no number, so the test goes by the value's print form.
IsNaN(v) == ToString(v) = ToString(NaN)

handleSquareBoundaries(circle, cv, pw, ph) ==
    LET centerX == RDiv(cv.width, 2)
        centerY == RDiv(cv.height, 2)
        halfWidth == RDiv(pw, 2)
        halfHeight == RDiv(ph, 2)
        left == centerX - halfWidth + RDiv(circle.size, 2)
        right == centerX + halfWidth - RDiv(circle.size, 2)
        top == centerY - halfHeight + RDiv(circle.size, 2)
        bottom == centerY + halfHeight - RDiv(circle.size, 2)
        hitX == circle.x <= left \/ circle.x >= right
        hitY == circle.y <= top \/ circle.y >= bottom
    IN  [circle EXCEPT !.vx = IF hitX THEN -circle.vx ELSE circle.vx,
                       !.x = IF hitX THEN Max(left, Min(right, circle.x)) ELSE circle.x,
                       !.vy = IF hitY THEN -circle.vy ELSE circle.vy,
                       !.y = IF hitY THEN Max(top, Min(bottom, circle.y)) ELSE circle.y]

\* handleCircleBoundaries that reflects the velocity and leaves the position.
handleCircleBoundaries_NoClamp(circle, centerX, centerY, pw) ==
    LET dx == circle.x - centerX
        dy == circle.y - centerY
        d2 == Dist2(dx, dy)
        distance == Sqrt(d2)
        radius == RDiv(pw, 2) - RDiv(circle.size, 2)
    IN  IF ~(radius < 0 \/ d2 > radius * radius) THEN circle
        ELSE IF d2 = 0
        THEN [circle EXCEPT !.vx = NaN, !.vy = NaN]
        ELSE LET nX == RDiv(dx * 1000, distance)
                 nY == RDiv(dy * 1000, distance)
                 dot == circle.vx * nX + circle.vy * nY
             IN  [circle EXCEPT !.vx = circle.vx - RDiv(2 * dot * nX, 1000000),
                                !.vy = circle.vy - RDiv(2 * dot * nY, 1000000)]

handleCircleBoundaries(circle, centerX, centerY, pw) ==
    LET dx == circle.x - centerX
        dy == circle.y - centerY
        d2 == Dist2(dx, dy)
        distance == Sqrt(d2)
        radius == RDiv(pw, 2) - RDiv(circle.size, 2)
    IN  IF ~(radius < 0 \/ d2 > radius * radius) THEN circle
        ELSE IF d2 = 0
        THEN [circle EXCEPT !.vx = NaN, !.vy = NaN, !.x = NaN, !.y = NaN]
        ELSE LET nX == RDiv(dx * 1000, distance)
                 nY == RDiv(dy * 1000, distance)
                 dot == circle.vx * nX + circle.vy * nY
             IN  [circle EXCEPT !.vx = circle.vx - RDiv(2 * dot * nX, 1000000),
                                !.vy = circle.vy - RDiv(2 * dot * nY, 1000000),
                                !.x = centerX + RDiv(nX * radius, 1000),
                                !.y = centerY + RDiv(nY * radius, 1000)]

handleArenaBoundaries(circle, shape, cv, pw, ph) ==
    LET centerX == RDiv(cv.width, 2)
        centerY == RDiv(cv.height, 2)
    IN  CASE shape = "square" -> handleSquareBoundaries(circle, cv, pw, ph)
          [] shape = "circle" -> handleCircleBoundaries(circle, centerX, centerY, pw)
          [] shape = "hexagon" -> handleCircleBoundaries(circle, centerX, centerY, pw)
          [] shape = "triangle" -> handleCircleBoundaries(circle, centerX, centerY, pw)
          [] OTHER -> circle

\* The body of the forEach of updateCircles for cs[n].
Integrate(circle) ==
    [circle EXCEPT !.x = circle.x + circle.vx, !.y = circle.y + circle.vy]

UpdateOne(cs, n, shape, cv, pw, ph) ==
    [cs EXCEPT ![n] = handleArenaBoundaries(Integrate(applyMagneticForces(cs[n], cs)),
                                            shape, cv, pw, ph)]

RECURSIVE UpdateFrom(_, _, _, _, _, _)
UpdateFrom(cs, n, shape, cv, pw, ph) ==
    IF n > Len(cs) THEN cs
    ELSE UpdateFrom(UpdateOne(cs, n, shape, cv, pw, ph), n + 1, shape, cv, pw, ph)

\* updateCircles in phases over the whole population: every circle's force
\* is computed from the positions all circles had when the frame began.
updateCircles_Phased(cs, shape, cv, pw, ph) ==
    [n \in 1 .. Len(cs) |->
        handleArenaBoundaries(Integrate(applyMagneticForces(cs[n], cs)),
                              shape, cv, pw, ph)]

\* updateCircles: this.circles afterwards.
updateCircles(cs, shape, cv, pw, ph) == UpdateFrom(cs, 1, shape, cv, pw, ph)

\* updateParticles: this.particles afterwards.
\* Variant of updateParticles that ages the particles and removes none.
updateParticles_KeepsExpired(ps) ==
    [n \in 1 .. Len(ps) |-> [ps[n] EXCEPT !.x = ps[n].x + ps[n].vx,
                                          !.y = ps[n].y + ps[n].vy,
                                          !.life = ps[n].life - 4,
                                          !.vx = RDiv(ps[n].vx * 98, 100),
                                          !.vy = RDiv((ps[n].vy + 10) * 98, 100)]]

updateParticles(ps) ==
    LET Step(p) == [p EXCEPT !.x = p.x + p.vx,
                             !.y = p.y + p.vy,
                             !.life = p.life - 4,
                             !.vx = RDiv(p.vx * 98, 100),
                             !.vy = RDiv((p.vy + 10) * 98, 100)]
        Alive(p) == p.life > 0
    IN  SelectSeq([n \in 1 .. Len(ps) |-> Step(ps[n])], Alive)

(***************************************************************************)
(* Arena geometry and population seeding.                                  *)
(***************************************************************************)
\* The value of a variable that was declared and never assigned.
Undefined == "undefined"

\* Variant of createArenaConfig that gives every shape the 1:1 aspect ratio.
createArenaConfig_AllSquare(shape, size, baseSize) ==
    [shape |-> shape, size |-> size,
     width |-> RDiv(baseSize * (CASE size = "small" -> 70
                                  [] size = "medium" -> 85
                                  [] size = "large" -> 100), 100),
     height |-> RDiv(baseSize * (CASE size = "small" -> 70
                                   [] size = "medium" -> 85
                                   [] size = "large" -> 100), 100)]

\* The switch has no default branch: for a shape that is none of the four,
\* width and height are returned as declared at line 578, unassigned.
createArenaConfig(shape, size, baseSize) ==
    LET sizeMultiplier == CASE size = "small" -> 70
                            [] size = "medium" -> 85
                            [] size = "large" -> 100
        adjustedSize == RDiv(baseSize * sizeMultiplier, 100)
    IN  CASE shape = "square" ->
               [shape |-> shape, size |-> size, width |-> adjustedSize, height |-> adjustedSize]
          [] shape = "circle" ->
               [shape |-> shape, size |-> size, width |-> adjustedSize, height |-> adjustedSize]
          [] shape = "hexagon" ->
               [shape |-> shape, size |-> size, width |-> adjustedSize,
                height |-> RDiv(adjustedSize * 866, 1000)]
          [] shape = "triangle" ->
               [shape |-> shape, size |-> size, width |-> adjustedSize,
                height |-> RDiv(adjustedSize * 866, 1000)]
          [] OTHER ->
               [shape |-> shape, size |-> size, width |-> Undefined, height |-> Undefined]

\* Math.min(this.canvas.width, this.canvas.height) - 20
BaseSize(cv) == Min(cv.width, cv.height) - 2000

\* getRandomArena: the shape is draw 0 of the stream, the size draw 1.
getRandomArena(cv, st) ==
    createArenaConfig(Shapes[((Draw(st, 0) * 4) \div 8) + 1],
                      Sizes[((Draw(st, 1) * 3) \div 8) + 1],
                      BaseSize(cv))

\* SeedCircle without the clamp of lines 691-698.
SeedCircle_NoClamp(color, center, id, cv, pw, ph, st, k) ==
    [id |-> id,
     x |-> center[1] + RDiv(Cos(Draw(st, k)) * RDiv(Draw(st, k + 1) * SPREAD_RADIUS, 8), 1000),
     y |-> center[2] + RDiv(Sin(Draw(st, k)) * RDiv(Draw(st, k + 1) * SPREAD_RADIUS, 8), 1000),
     vx |-> RDiv(Cos(Draw(st, k + 2)) * SPEED, 1000),
     vy |-> RDiv(Sin(Draw(st, k + 2)) * SPEED, 1000),
     color |-> color,
     size |-> CIRCLE_SIZE]

\* Circle i (0-based) of createCircleGroup; its draws start at k.  The id
\* stands for the unique string `${color}-${i}-${Date.now()}`.
SeedCircle(color, center, id, cv, pw, ph, st, k) ==
    LET distance == RDiv(Draw(st, k + 1) * SPREAD_RADIUS, 8)
        x == center[1] + RDiv(Cos(Draw(st, k)) * distance, 1000)
        y == center[2] + RDiv(Sin(Draw(st, k)) * distance, 1000)
        centerX == RDiv(cv.width, 2)
        centerY == RDiv(cv.height, 2)
        halfWidth == RDiv(pw, 2)
        halfHeight == RDiv(ph, 2)
    IN  [id |-> id,
         x |-> Max(centerX - halfWidth + RDiv(CIRCLE_SIZE, 2),
                   Min(centerX + halfWidth - RDiv(CIRCLE_SIZE, 2), x)),
         y |-> Max(centerY - halfHeight + RDiv(CIRCLE_SIZE, 2),
                   Min(centerY + halfHeight - RDiv(CIRCLE_SIZE, 2), y)),
         vx |-> RDiv(Cos(Draw(st, k + 2)) * SPEED, 1000),
         vy |-> RDiv(Sin(Draw(st, k + 2)) * SPEED, 1000),
         color |-> color,
         size |-> CIRCLE_SIZE]

\* createCircleGroup: the circles pushed; g is the group's place (0, 1, 2).
createCircleGroup(color, center, g, cv, pw, ph, st, k) ==
    [i \in 1 .. INITIAL_CIRCLES_PER_COLOR |->
        SeedCircle(color, center, g * INITIAL_CIRCLES_PER_COLOR + i, cv, pw, ph,
                   st, k + 3 * (g * INITIAL_CIRCLES_PER_COLOR + i - 1))]

\* initializeCircles: this.circles afterwards; the draws start at k.
initializeCircles(cv, pw, ph, st, k) ==
    LET centerX == RDiv(cv.width, 2)
        centerY == RDiv(cv.height, 2)
        halfWidth == RDiv(pw, 2)
        halfHeight == RDiv(ph, 2)
    IN  createCircleGroup("blue", <<centerX, centerY - halfHeight + 5000>>,
                          0, cv, pw, ph, st, k)
        \o createCircleGroup("red", <<centerX - halfWidth + 5000, centerY + halfHeight - 5000>>,
                             1, cv, pw, ph, st, k)
        \o createCircleGroup("green", <<centerX + halfWidth - 5000, centerY + halfHeight - 5000>>,
                             2, cv, pw, ph, st, k)

(***************************************************************************)
(* The win check.                                                          *)
(***************************************************************************)
getColorCounts(cs) ==
    [color \in Colors |-> Cardinality({n \in 1 .. Len(cs) : cs[n].color = color})]

\* The keys of Object.entries(counts) whose count is > 0, in key order.
ActiveColors(cs) ==
    LET counts == getColorCounts(cs)
        Positive(color) == counts[color] > 0
    IN  SelectSeq(ColorOrder, Positive)

(***************************************************************************)
(* The engine and its host.                                                *)
(*   canvas            the <canvas> element's width and height             *)
(*   currentArena, PLAYFIELD_WIDTH, PLAYFIELD_HEIGHT, circles, particles,  *)
(*   animationId (0 for null), isRunning    the fields of GameEngine       *)
(*   pending           the requestAnimationFrame callbacks not yet run     *)
(*   ended             the calls of onGameEnd: the run and the winner      *)
(*   runs, frames      calls of startGame, executions of gameLoop's body   *)
(*   last              what the last handler did (for the properties)      *)
(***************************************************************************)
VARIABLES canvas, currentArena, PLAYFIELD_WIDTH, PLAYFIELD_HEIGHT, circles,
          particles, animationId, isRunning, pending, ended, runs, frames, last

(***************************************************************************)
(* The state of the component SimulationGame and of its BettingInterface.  *)
(*   gamePhase, winner, bettingState    the state of SimulationGame        *)
(*   selectedColor, wagerAmount, errorMessage                              *)
(*                     the state of BettingInterface (null is "null")      *)
(***************************************************************************)
VARIABLES gamePhase, winner, bettingState, selectedColor, wagerAmount, errorMessage

engineVars == <<canvas, currentArena, PLAYFIELD_WIDTH, PLAYFIELD_HEIGHT, circles,
                particles, animationId, isRunning, pending, ended, runs, frames, last>>

hostVars == <<gamePhase, winner, bettingState, selectedColor, wagerAmount, errorMessage>>

vars == <<canvas, currentArena, PLAYFIELD_WIDTH, PLAYFIELD_HEIGHT, circles,
          particles, animationId, isRunning, pending, ended, runs, frames, last,
          gamePhase, winner, bettingState, selectedColor, wagerAmount, errorMessage>>

\* The value null of a state that holds a color or nothing.
Null == "null"

\* The bank a player starts with, and the wager the betting form starts with.
INITIAL_BANK == 100
INITIAL_WAGER_AMOUNT == 10

\* The host as mounted: useState's initial values.
Mounted ==
    /\ gamePhase = "ready"
    /\ winner = Null
    /\ bettingState = [bank |-> INITIAL_BANK, wager |-> 0, predictedWinner |-> Null]
    /\ selectedColor = Null
    /\ wagerAmount = INITIAL_WAGER_AMOUNT
    /\ errorMessage = ""

\* Canvas sizes updateCanvasSize can set (the window's size decides).
CanvasSizes == {20000, 30000}

\* Streams of random numbers for startGame: the arena's shape and size, the
\* seeding (angle, distance, heading per circle), then the first frame.
StartStreams ==
    { <<0, 0, 2, 3, 2, 1, 2, 7, 3, 2, 5>>,
      <<2, 3, 3, 6, 3, 7, 1, 6, 4, 7, 0>>,
      <<6, 0, 1, 1, 4, 4, 2, 6, 4, 2, 0>>,
      <<0, 6, 6, 7, 0, 6, 7, 0, 2, 7, 0>> }

\* Streams of random numbers for one later frame.
FrameStreams == { <<0, 0, 0, 0>>, <<3, 6, 1, 7, 4>> }

NoLast == [op |-> "none", ran |-> FALSE, start |-> <<>>, moved |-> <<>>,
           scanned |-> <<>>, toRemove |-> {}, toAdd |-> <<>>, log |-> <<>>,
           emitted |-> 0, active |-> <<>>, reported |-> <<>>, scheduled |-> FALSE,
           battle |-> [winner |-> <<>>, loser |-> <<>>], relationship |-> "none"]

\* requestAnimationFrame's handle: a new one, which no pending callback and
\* not the callback that is running has.
requestAnimationFrame(pend) == FreshId(pend)

\* The callback h has run: it is pending no more.
Ran(e, h) == [e EXCEPT !.pending = e.pending \ {h}]

\* FrameEnd whose win check also fires when two colors are active.
FrameEnd_WinsWithTwo(e, op, moved, ps, col, active) ==
    [e EXCEPT !.circles = col.circles,
              !.particles = col.particles,
              !.isRunning = Len(active) \notin {1, 2},
              !.ended = IF Len(active) \in {1, 2}
                        THEN Append(e.ended, [run |-> e.runs, winner |-> active[1]])
                        ELSE e.ended,
              !.animationId = requestAnimationFrame(e.pending),
              !.pending = e.pending \cup {requestAnimationFrame(e.pending)},
              !.frames = e.frames + 1,
              !.last = [op |-> op, ran |-> TRUE, start |-> e.circles,
                        moved |-> moved, scanned |-> col.scanned,
                        toRemove |-> col.toRemove, toAdd |-> col.toAdd,
                        log |-> col.log,
                        emitted |-> Len(col.particles) - Len(ps),
                        active |-> active,
                        reported |-> IF Len(active) \in {1, 2} THEN <<active[1]>> ELSE <<>>,
                        scheduled |-> TRUE,
                        battle |-> NoLast.battle, relationship |-> "none"]]

\* FrameEnd whose win check leaves isRunning as it is.
FrameEnd_KeepsRunning(e, op, moved, ps, col, active) ==
    [e EXCEPT !.circles = col.circles,
              !.particles = col.particles,
              !.ended = IF Len(active) = 1
                        THEN Append(e.ended, [run |-> e.runs, winner |-> active[1]])
                        ELSE e.ended,
              !.animationId = requestAnimationFrame(e.pending),
              !.pending = e.pending \cup {requestAnimationFrame(e.pending)},
              !.frames = e.frames + 1,
              !.last = [op |-> op, ran |-> TRUE, start |-> e.circles,
                        moved |-> moved, scanned |-> col.scanned,
                        toRemove |-> col.toRemove, toAdd |-> col.toAdd,
                        log |-> col.log,
                        emitted |-> Len(col.particles) - Len(ps),
                        active |-> active,
                        reported |-> IF Len(active) = 1 THEN <<active[1]>> ELSE <<>>,
                        scheduled |-> TRUE,
                        battle |-> NoLast.battle, relationship |-> "none"]]

\* Lines 721-723: checkWinCondition on the circles col.circles, whose
\* active colors are `active`, then the next frame is requested.
FrameEnd(e, op, moved, ps, col, active) ==
    [e EXCEPT !.circles = col.circles,
              !.particles = col.particles,
              !.isRunning = Len(active) # 1,
              !.ended = IF Len(active) = 1
                        THEN Append(e.ended, [run |-> e.runs, winner |-> active[1]])
                        ELSE e.ended,
              !.animationId = requestAnimationFrame(e.pending),
              !.pending = e.pending \cup {requestAnimationFrame(e.pending)},
              !.frames = e.frames + 1,
              !.last = [op |-> op, ran |-> TRUE, start |-> e.circles,
                        moved |-> moved, scanned |-> col.scanned,
                        toRemove |-> col.toRemove, toAdd |-> col.toAdd,
                        log |-> col.log,
                        emitted |-> Len(col.particles) - Len(ps),
                        active |-> active,
                        reported |-> IF Len(active) = 1 THEN <<active[1]>> ELSE <<>>,
                        scheduled |-> TRUE,
                        battle |-> NoLast.battle, relationship |-> "none"]]

\* Lines 719-721: col is the result of checkCollisions.
FrameCollided(e, op, moved, ps, col) ==
    FrameEnd(e, op, moved, ps, col, ActiveColors(col.circles))

\* Lines 717-719: moved and ps are the circles and particles after
\* updateCircles and updateParticles.
FrameUpdated(e, op, moved, ps, st, k) ==
    FrameCollided(e, op, moved, ps, checkCollisions(moved, ps, st, k))

\* gameLoop without the test of line 715.
gameLoop_NoGuard(e, op, st, k) ==
    FrameUpdated(e, op,
                 updateCircles(e.circles, e.currentArena.shape, e.canvas,
                               e.PLAYFIELD_WIDTH, e.PLAYFIELD_HEIGHT),
                 updateParticles(e.particles), st, k)

\* gameLoop on the engine e (a record of the variables), drawing from st at
\* k: the engine afterwards, with `last` describing the frame.
gameLoop(e, op, st, k) ==
    IF ~e.isRunning
    THEN [e EXCEPT !.last = [NoLast EXCEPT !.op = op, !.start = e.circles]]
    ELSE FrameUpdated(e, op,
                      updateCircles(e.circles, e.currentArena.shape, e.canvas,
                                    e.PLAYFIELD_WIDTH, e.PLAYFIELD_HEIGHT),
                      updateParticles(e.particles), st, k)

Engine ==
    [canvas |-> canvas, currentArena |-> currentArena,
     PLAYFIELD_WIDTH |-> PLAYFIELD_WIDTH, PLAYFIELD_HEIGHT |-> PLAYFIELD_HEIGHT,
     circles |-> circles, particles |-> particles, animationId |-> animationId,
     isRunning |-> isRunning, pending |-> pending, ended |-> ended,
     runs |-> runs, frames |-> frames, last |-> last]

\* The engine's variables take the values of the engine record e.
EngineBecomes(e) ==
    /\ canvas' = e.canvas
    /\ currentArena' = e.currentArena
    /\ PLAYFIELD_WIDTH' = e.PLAYFIELD_WIDTH
    /\ PLAYFIELD_HEIGHT' = e.PLAYFIELD_HEIGHT
    /\ circles' = e.circles
    /\ particles' = e.particles
    /\ animationId' = e.animationId
    /\ isRunning' = e.isRunning
    /\ pending' = e.pending
    /\ ended' = e.ended
    /\ runs' = e.runs
    /\ frames' = e.frames
    /\ last' = e.last

\* The engine becomes e; the host's state stays.
Becomes(e) == EngineBecomes(e) /\ UNCHANGED hostVars

\* The engine after construction on a canvas of the size cvs
\* (GameCanvas.tsx lines 33-37; constructor and updateDimensions).
Constructed(cvs) ==
    LET cv == [width |-> cvs, height |-> cvs]
        arena == createArenaConfig("square", "medium", BaseSize(cv))
    IN  [canvas |-> cv, currentArena |-> arena,
         PLAYFIELD_WIDTH |-> arena.width, PLAYFIELD_HEIGHT |-> arena.height,
         circles |-> <<>>, particles |-> <<>>, animationId |-> 0,
         isRunning |-> FALSE, pending |-> {}, ended |-> <<>>,
         runs |-> 0, frames |-> 0, last |-> NoLast]

\* The variables have the values of the engine record e.
Is(e) ==
    /\ canvas = e.canvas
    /\ currentArena = e.currentArena
    /\ PLAYFIELD_WIDTH = e.PLAYFIELD_WIDTH
    /\ PLAYFIELD_HEIGHT = e.PLAYFIELD_HEIGHT
    /\ circles = e.circles
    /\ particles = e.particles
    /\ animationId = e.animationId
    /\ isRunning = e.isRunning
    /\ pending = e.pending
    /\ ended = e.ended
    /\ runs = e.runs
    /\ frames = e.frames
    /\ last = e.last
    /\ Mounted

Init == \E cvs \in CanvasSizes : Is(Constructed(cvs))

\* Seeded whose initializeCircles does not empty the collection first
\* (without line 646).
Seeded_KeepsCircles(e, arena, st) ==
    [e EXCEPT !.currentArena = arena,
              !.PLAYFIELD_WIDTH = arena.width,
              !.PLAYFIELD_HEIGHT = arena.height,
              !.isRunning = TRUE,
              !.runs = e.runs + 1,
              !.circles = e.circles \o
                          initializeCircles(e.canvas, arena.width, arena.height, st, 2)]

\* startGame on the engine e with the stream st.
\* Lines 621-626 of startGame: arena is the result of getRandomArena.
Seeded(e, arena, st) ==
    [e EXCEPT !.currentArena = arena,
              !.PLAYFIELD_WIDTH = arena.width,
              !.PLAYFIELD_HEIGHT = arena.height,
              !.isRunning = TRUE,
              !.runs = e.runs + 1,
              !.circles = initializeCircles(e.canvas, arena.width, arena.height, st, 2)]

startGame(e, st) ==
    gameLoop(Seeded(e, getRandomArena(e.canvas, st), st), "startGame", st,
             2 + 9 * INITIAL_CIRCLES_PER_COLOR)

\* reset that leaves isRunning as it is (without line 631).
reset_StaysRunning(e, op) ==
    [e EXCEPT !.circles = <<>>,
              !.particles = <<>>,
              !.pending = IF e.animationId # 0 THEN e.pending \ {e.animationId}
                          ELSE e.pending,
              !.animationId = 0,
              !.last = [NoLast EXCEPT !.op = op, !.start = e.circles]]

\* reset on the engine e.
reset(e, op) ==
    [e EXCEPT !.isRunning = FALSE,
              !.circles = <<>>,
              !.particles = <<>>,
              !.pending = IF e.animationId # 0 THEN e.pending \ {e.animationId}
                          ELSE e.pending,
              !.animationId = 0,
              !.last = [NoLast EXCEPT !.op = op, !.start = e.circles]]

\* The host starts a game (GameCanvas.tsx line 50).
StartGame ==
    /\ runs < MaxRuns
    /\ frames < MaxFrames
    /\ \E st \in StartStreams : Becomes(startGame(Engine, st))

\* The host resets the engine (GameCanvas.tsx line 52).
Reset == Becomes(reset(Engine, "reset"))

\* The host's effect cleanup destroys the engine (GameCanvas.tsx line 42).
Destroy == Becomes(reset(Engine, "destroy"))

\* The window is resized: updateCanvasSize sets the canvas's width and height.
Resize ==
    \E cvs \in CanvasSizes :
        /\ cvs # canvas.width
        /\ Becomes([Engine EXCEPT !.canvas = [width |-> cvs, height |-> cvs],
                                  !.last = [NoLast EXCEPT !.op = "resize",
                                                          !.start = circles]])

\* The callback h of requestAnimationFrame runs: () => this.gameLoop().
Frame ==
    /\ frames < MaxFrames
    /\ \E h \in pending : \E st \in FrameStreams :
          Becomes(Ran(gameLoop(Engine, "frame", st, 0), h))

\* Arenas a caller of setArena asks for.
SetArenaChoices == { <<"circle", "small">> }

\* setArena that also sets isRunning, as startGame does at line 625.
setArena_Restarts(e, shape, size) ==
    [e EXCEPT !.currentArena = createArenaConfig(shape, size, BaseSize(e.canvas)),
              !.PLAYFIELD_WIDTH = createArenaConfig(shape, size, BaseSize(e.canvas)).width,
              !.PLAYFIELD_HEIGHT = createArenaConfig(shape, size, BaseSize(e.canvas)).height,
              !.isRunning = TRUE,
              !.last = [NoLast EXCEPT !.op = "setArena", !.start = e.circles]]

\* setArena on the engine e.
setArena(e, shape, size) ==
    [e EXCEPT !.currentArena = createArenaConfig(shape, size, BaseSize(e.canvas)),
              !.PLAYFIELD_WIDTH = createArenaConfig(shape, size, BaseSize(e.canvas)).width,
              !.PLAYFIELD_HEIGHT = createArenaConfig(shape, size, BaseSize(e.canvas)).height,
              !.last = [NoLast EXCEPT !.op = "setArena", !.start = e.circles]]

\* A caller sets the arena (the public method setArena, which the host
\* component does not call): between games, while the engine is stopped.
SetArena ==
    \E a \in SetArenaChoices :
        /\ ~isRunning
        /\ currentArena # createArenaConfig(a[1], a[2], BaseSize(canvas))
        /\ Becomes(setArena(Engine, a[1], a[2]))

\* gameLoop whose onGameEnd callback calls reset(): e is the engine before
\* the frame and g the engine after a gameLoop that reported a winner.  The
\* reset runs inside checkWinCondition (line 1305): it empties the
\* collections and cancels the handle animationId held; line 723 then
\* requests the next frame as always.  `last` records the reset.
ResetInOnGameEnd(e, g) ==
    [g EXCEPT !.circles = <<>>,
              !.particles = <<>>,
              !.pending = (IF e.animationId # 0 THEN e.pending \ {e.animationId}
                           ELSE e.pending) \cup {g.animationId},
              !.last = [NoLast EXCEPT !.op = "onGameEnd", !.start = e.circles,
                                      !.scheduled = TRUE]]

\* The callback h runs a frame that finds the winner, and the host's
\* onGameEnd resets the engine at once.
FrameEndsInReset ==
    /\ frames < MaxFrames
    /\ \E h \in pending : \E st \in FrameStreams :
          /\ gameLoop(Engine, "frame", st, 0).last.reported # <<>>
          /\ Becomes(Ran(ResetInOnGameEnd(Engine, gameLoop(Engine, "frame", st, 0)), h))

Next ==
    \/ StartGame \/ Reset \/ Destroy \/ Resize \/ SetArena
    \/ Frame \/ FrameEndsInReset

Spec == Init /\ [][Next]_vars

(***************************************************************************)
(* One game left to itself: the host starts it once and never resets or    *)
(* destroys the engine, and the browser runs every requested frame.  The   *)
(* frame counter, which only bounds Spec, is held at 0 here, so a game     *)
(* that goes on for ever is a cycle of states.                             *)
(***************************************************************************)
LiveStreams ==
    { <<0, 0, 2, 3, 2, 1, 2, 7, 3, 2, 5>>,
      <<0, 6, 6, 7, 0, 6, 7, 0, 2, 7, 0>> }

\* The random numbers of every later frame.
LiveFrameStreams == { <<3, 6, 1, 7, 4>> }

Uncounted(e) == [e EXCEPT !.frames = 0]

\* The host starts the one game (GameCanvas.tsx line 50).
LiveStart ==
    /\ runs = 0
    /\ \E st \in LiveStreams : Becomes(Uncounted(startGame(Engine, st)))

\* The callback h of requestAnimationFrame runs.
LiveFrame ==
    \E h \in pending : \E st \in LiveFrameStreams :
        Becomes(Uncounted(Ran(gameLoop(Engine, "frame", st, 0), h)))

LiveNext == LiveStart \/ LiveFrame

\* The host starts the game, or the browser runs a pending callback.  Each
\* of the two changes the set of pending callbacks (a start adds a handle, a
\* callback is replaced by the one it requests or, once the engine has
\* stopped, by none), and nothing else does.
Scheduled ==
    /\ runs = 0 \/ pending # {}
    /\ pending' \in SUBSET (1 .. Cardinality(pending) + 1)

\* Fairness: the game is started, and a pending callback is run.
SpecLive == Init /\ [][LiveNext]_vars /\ WF_pending(Scheduled)

(***************************************************************************)
(* The engine's operations applied one at a time to drawn inputs: the      *)
(* engine's variables are set to a configuration, one operation is         *)
(* applied to it, and `last` keeps the configuration it was applied to.    *)
(***************************************************************************)
\* Places of a circle around the middle of a 200 px canvas, each with a
\* velocity: the same place twice gives coinciding centers, UnitPlaces[2] is
\* 10 px from UnitPlaces[1] (overlapping), UnitPlaces[3] exactly 25 px
\* (touching), UnitPlaces[4] 60 px (in magnetic range), UnitPlaces[5] 99 px.
UnitPlaces ==
    << [x |-> 10000, y |-> 10000, vx |-> 250, vy |-> 0],
       [x |-> 11000, y |-> 10000, vx |-> -150, vy |-> 200],
       [x |-> 11500, y |-> 12000, vx |-> 0, vy |-> -250],
       [x |-> 10000, y |-> 16000, vx |-> 177, vy |-> 177],
       [x |-> 3000, y |-> 3000, vx |-> -250, vy |-> 0] >>

UnitCircle(id, place, color) ==
    [id |-> id, x |-> UnitPlaces[place].x, y |-> UnitPlaces[place].y,
     vx |-> UnitPlaces[place].vx, vy |-> UnitPlaces[place].vy,
     color |-> color, size |-> CIRCLE_SIZE]

\* The configurations of n circles: places in non-decreasing order, any colors.
UnitConfigs(n) ==
    { [i \in 1 .. n |-> UnitCircle(i, pl[i], co[i])] :
        pl \in { f \in [1 .. n -> 1 .. Len(UnitPlaces)] :
                   \A i \in 1 .. n - 1 : f[i] <= f[i + 1] },
        co \in [1 .. n -> Colors] }

\* One circle anywhere on, around or outside the arena, for the boundary
\* routines: offsets from the canvas's middle.
UnitOffsets == {0, 3000, -9000, 14000}

UnitVelocities == { <<250, 0>>, <<-150, -200>>, <<0, 250>> }

\* Canvas sizes for the boundary routines; 40 px leaves an arena narrower
\* than a circle.
UnitCanvasSizes == {4000, 20000, 30000}

\* Velocities at, just under and over the speed limit of 4.5 px per frame
\* (an agent gets there by the forces of many frames; a clone's velocity is
\* its winner's plus up to 0.5 px each way).
UnitFastVelocities ==
    { <<450, 0>>, <<440, 0>>, <<-300, -340>>, <<0, 449>>, <<318, 318>>, <<-470, 120>> }

\* The engine, running, with the arena and the circles given.
UnitEngine(cvs, arena, cs) ==
    [Constructed(cvs) EXCEPT !.currentArena = arena,
                             !.PLAYFIELD_WIDTH = arena.width,
                             !.PLAYFIELD_HEIGHT = arena.height,
                             !.isRunning = TRUE,
                             !.runs = 1,
                             !.circles = cs]

UnitInit ==
    \/ \E n \in 0 .. MaxUnitCircles : \E cs \in UnitConfigs(n) :
          Is(UnitEngine(20000, Constructed(20000).currentArena, cs))
    \/ \E cvs \in UnitCanvasSizes : \E sh \in 1 .. 4 : \E sz \in 1 .. 3 :
       \E ox \in UnitOffsets : \E oy \in UnitOffsets : \E v \in UnitVelocities :
          Is(UnitEngine(cvs,
                        createArenaConfig(Shapes[sh], Sizes[sz],
                                          BaseSize([width |-> cvs, height |-> cvs])),
                        << [id |-> 1, x |-> RDiv(cvs, 2) + ox, y |-> RDiv(cvs, 2) + oy,
                            vx |-> v[1], vy |-> v[2], color |-> "blue",
                            size |-> CIRCLE_SIZE] >>))
    \/ \E cvs \in UnitCanvasSizes : \E sh \in 1 .. 4 : \E sz \in 1 .. 3 :
          Is(UnitEngine(cvs,
                        createArenaConfig(Shapes[sh], Sizes[sz],
                                          BaseSize([width |-> cvs, height |-> cvs])),
                        <<>>))
    \/ \E v \in UnitFastVelocities : \E pl \in 2 .. 4 : \E co \in Colors :
          Is(UnitEngine(20000, Constructed(20000).currentArena,
                        << [UnitCircle(1, 1, "blue") EXCEPT !.vx = v[1], !.vy = v[2]],
                           UnitCircle(2, pl, co) >>))

Fresh == last.op = "none"

\* resolveBattle and getColorRelationship on the first two circles.
UnitBattle ==
    /\ Fresh
    /\ Len(circles) >= 2
    /\ last' = [NoLast EXCEPT !.op = "resolveBattle", !.start = circles,
                              !.battle = resolveBattle(circles[1], circles[2]),
                              !.relationship = getColorRelationship(circles[1].color,
                                                                    circles[2].color)]
    /\ UNCHANGED <<canvas, currentArena, PLAYFIELD_WIDTH, PLAYFIELD_HEIGHT, circles,
                   particles, animationId, isRunning, pending, ended, runs, frames>>
    /\ UNCHANGED hostVars

\* applyMagneticForces on the first circle.
UnitForces ==
    /\ Fresh
    /\ Len(circles) >= 1
    /\ circles' = [circles EXCEPT ![1] = applyMagneticForces(circles[1], circles)]
    /\ last' = [NoLast EXCEPT !.op = "applyMagneticForces", !.start = circles]
    /\ UNCHANGED <<canvas, currentArena, PLAYFIELD_WIDTH, PLAYFIELD_HEIGHT,
                   particles, animationId, isRunning, pending, ended, runs, frames>>
    /\ UNCHANGED hostVars

\* handleArenaBoundaries on every circle.
UnitBoundaries ==
    /\ Fresh
    /\ Len(circles) >= 1
    /\ circles' = [n \in 1 .. Len(circles) |->
                     handleArenaBoundaries(circles[n], currentArena.shape, canvas,
                                           PLAYFIELD_WIDTH, PLAYFIELD_HEIGHT)]
    /\ last' = [NoLast EXCEPT !.op = "handleArenaBoundaries", !.start = circles]
    /\ UNCHANGED <<canvas, currentArena, PLAYFIELD_WIDTH, PLAYFIELD_HEIGHT,
                   particles, animationId, isRunning, pending, ended, runs, frames>>
    /\ UNCHANGED hostVars

\* The record `last` of a lone checkCollisions whose result is col.
CollisionsLast(col, start) ==
    [NoLast EXCEPT !.op = "checkCollisions", !.start = start, !.moved = start,
                   !.scanned = col.scanned, !.toRemove = col.toRemove,
                   !.toAdd = col.toAdd, !.log = col.log,
                   !.emitted = Len(col.particles)]

\* The variables after a lone checkCollisions whose result is col.
CollisionsDone(col) ==
    /\ circles' = col.circles
    /\ particles' = col.particles
    /\ last' = CollisionsLast(col, circles)

\* checkCollisions.
UnitCollisions ==
    /\ Fresh
    /\ \E st \in FrameStreams : CollisionsDone(checkCollisions(circles, particles, st, 0))
    /\ UNCHANGED <<canvas, currentArena, PLAYFIELD_WIDTH, PLAYFIELD_HEIGHT,
                   animationId, isRunning, pending, ended, runs, frames>>
    /\ UNCHANGED hostVars

\* gameLoop.
UnitGameLoop ==
    /\ Fresh
    /\ \E st \in FrameStreams : Becomes(gameLoop(Engine, "gameLoop", st, 0))

\* Streams for the seeding: every angle and every distance of the scatter
\* (the same for the three groups), each group with a heading of its own.
SeedStreams ==
    { <<0, 0, a, d, 2, a, d, 5, a, d, 7>> : a \in Rand, d \in Rand }

\* initializeCircles on an engine without circles.
UnitSeed ==
    /\ Fresh
    /\ circles = <<>>
    /\ \E st \in SeedStreams :
          circles' = initializeCircles(canvas, PLAYFIELD_WIDTH, PLAYFIELD_HEIGHT, st, 2)
    /\ last' = [NoLast EXCEPT !.op = "initializeCircles"]
    /\ UNCHANGED <<canvas, currentArena, PLAYFIELD_WIDTH, PLAYFIELD_HEIGHT,
                   particles, animationId, isRunning, pending, ended, runs, frames>>
    /\ UNCHANGED hostVars

\* A shape outside the enumeration ArenaShape, which the type of setArena's
\* parameter excludes at compile time and nothing excludes at run time.
UnknownShapes == { "pentagon" }

\* setArena on an engine without agents; start keeps its two arguments.
UnitSetArena ==
    /\ Fresh
    /\ circles = <<>>
    /\ \E sh \in {Shapes[n] : n \in 1 .. 4} \cup UnknownShapes : \E sz \in 1 .. 3 :
          Becomes([setArena(Engine, sh, Sizes[sz]) EXCEPT !.last.start = <<sh, Sizes[sz]>>])

UnitNext ==
    \/ UnitBattle \/ UnitForces \/ UnitBoundaries \/ UnitCollisions \/ UnitGameLoop
    \/ UnitSeed \/ UnitSetArena

SpecUnit == UnitInit /\ [][UnitNext]_vars

(***************************************************************************)
(* Properties.                                                             *)
(***************************************************************************)
\* Two agents of the colors A and B, as arguments of resolveBattle.
Agent1(A) == UnitCircle(1, 1, A)

Agent2(B) == UnitCircle(2, 2, B)

\* "A beats B": resolveBattle makes the A agent the winner, in either
\* argument order.
Beats(A, B) ==
    /\ resolveBattle(Agent1(A), Agent2(B)) = [winner |-> <<Agent1(A)>>, loser |-> <<Agent2(B)>>]
    /\ resolveBattle(Agent2(B), Agent1(A)) = [winner |-> <<Agent1(A)>>, loser |-> <<Agent2(B)>>]

\* C2: the battle relation is a strict 3-cycle (blue beats red, green beats
\* blue, red beats green): of two distinct colors exactly one beats the
\* other, no color beats itself (same colors give a null result), each color
\* has exactly one predator and one prey, and every resolveBattle applied to
\* two circles of different colors returns one of them as the winner and the
\* other as the loser, the same ones whatever the argument order.
C2_StrictCycle ==
    /\ Beats("blue", "red") /\ Beats("green", "blue") /\ Beats("red", "green")
    /\ \A A \in Colors : \A B \in Colors :
          /\ A # B => (Beats(A, B) /\ ~Beats(B, A)) \/ (Beats(B, A) /\ ~Beats(A, B))
          /\ A = B => /\ ~Beats(A, B)
                      /\ resolveBattle(Agent1(A), Agent2(B)) = [winner |-> <<>>, loser |-> <<>>]
    /\ \A A \in Colors :
          /\ Cardinality({B \in Colors : Beats(A, B)}) = 1
          /\ Cardinality({B \in Colors : Beats(B, A)}) = 1
    /\ last.op = "resolveBattle" /\ last.start[1].color # last.start[2].color =>
          /\ last.battle.winner # <<>> /\ last.battle.loser # <<>>
          /\ {last.battle.winner[1], last.battle.loser[1]} = {last.start[1], last.start[2]}
          /\ last.battle.winner[1].id # last.battle.loser[1].id
          /\ last.battle = resolveBattle(last.start[2], last.start[1])

\* C2's case: resolveBattle was applied to two circles of different colors
\* and the second argument won.
C2_Witness ==
    /\ last.op = "resolveBattle"
    /\ last.start[1].color = "red" /\ last.start[2].color = "blue"
    /\ last.battle.winner = <<last.start[2]>>

\* C3: the force field and the battle rule use the same relation: for
\* distinct colors A and B getColorRelationship(A, B) is "attraction"
\* exactly when the A agent wins the battle against a B agent, "repulsion"
\* exactly when the B agent wins, and it is "neutral" exactly when A = B.
C3_SameRelation ==
    /\ \A A \in Colors : \A B \in Colors :
          /\ getColorRelationship(A, B) = "attraction" <=> Beats(A, B)
          /\ getColorRelationship(A, B) = "repulsion" <=> Beats(B, A)
          /\ getColorRelationship(A, B) = "neutral" <=> A = B
    /\ last.op = "resolveBattle" =>
          /\ last.relationship = "attraction" <=> last.battle.winner = <<last.start[1]>>
          /\ last.relationship = "repulsion" <=> last.battle.winner = <<last.start[2]>>
          /\ last.relationship = "neutral" <=> last.start[1].color = last.start[2].color

\* C3's case: the first circle flees the second, and the second won.
C3_Witness ==
    /\ last.op = "resolveBattle"
    /\ last.relationship = "repulsion"
    /\ last.battle.winner = <<last.start[2]>>
    /\ last.start[1].color = "green"

\* C1: a frame's collision step conserves the number of agents: every
\* battle marks exactly one agent (its loser) for removal and adds exactly
\* one agent of the winner's color, also when the winner of one battle loses
\* a later battle of the same frame, so the collection after the removals
\* and additions is as long as before; from startGame until reset the
\* collection holds 3 x INITIAL_CIRCLES_PER_COLOR agents.
C1_CountConserved ==
    /\ Len(circles) \in {0, 3 * INITIAL_CIRCLES_PER_COLOR}
    /\ isRunning \/ last.ran => Len(circles) = 3 * INITIAL_CIRCLES_PER_COLOR
    /\ last.ran =>
          /\ Len(circles) = Len(last.moved)
          /\ Cardinality(last.toRemove) = Len(last.log)
          /\ Len(last.toAdd) = Len(last.log)
          /\ Cardinality(Ids(circles)) = Len(circles)
          /\ Ids(circles) = (Ids(last.moved) \ last.toRemove) \cup Ids(last.toAdd)
          /\ \A n \in 1 .. Len(last.log) :
                /\ last.log[n].loser \in Ids(last.moved)
                /\ last.log[n].loser \notin Ids(circles)
                /\ last.log[n].clone = last.toAdd[n]
                /\ \E m \in 1 .. Len(circles) : circles[m] = last.log[n].clone
                /\ \E m \in 1 .. Len(last.moved) :
                      /\ last.moved[m].id = last.log[n].winner
                      /\ last.moved[m].color = last.log[n].clone.color

\* C1's case: a frame of a run (the one startGame executes) with two
\* battles, the winner of the first being the loser of the second.
C1_Witness ==
    /\ last.ran
    /\ last.op = "startGame"
    /\ Len(last.log) = 2
    /\ last.log[1].winner = last.log[2].loser

\* The circles of cs that are cs[1] itself or of another color than cs[1].
WithoutSameColor(cs) ==
    LET Other(c) == c.id = cs[1].id \/ c.color # cs[1].color
    IN  SelectSeq(cs, Other)

\* The scan state checkCollisions starts from.
ScanStart(cs, ps) ==
    [cs |-> cs, toRemove |-> {}, toAdd |-> <<>>, ps |-> ps, k |-> 0, log |-> <<>>]

\* The positions in the list of the agents that took part in a battle.
InBattle(log) == {log[n].i : n \in 1 .. Len(log)} \cup {log[n].j : n \in 1 .. Len(log)}

\* C4: two agents of equal color never interact, at any distance, coinciding
\* centers included.  applyMagneticForces: an agent of the current agent's
\* color contributes no force, so the result is the same with these agents
\* taken out, and among agents of one color the agent ends as it would
\* alone (its velocity as it was, or scaled to the speed limit).
\* checkCollisions: the loop body leaves the scan state as it is for a pair of
\* equal color; every battle is between two colors; particles come from
\* battles only (6 + 8 each); and an agent that took part in no battle keeps
\* its position and velocity and stays in the collection.
C4_SameColorNeutral ==
    /\ last.op = "applyMagneticForces" =>
          /\ \A n \in 1 .. Len(last.start) :
                last.start[n].color = last.start[1].color =>
                   ForceFrom(last.start[1], last.start[n]) = <<0, 0>>
          /\ circles[1] = applyMagneticForces(last.start[1], WithoutSameColor(last.start))
          /\ (\A n \in 1 .. Len(last.start) : last.start[n].color = last.start[1].color)
                => /\ circles[1] = applyMagneticForces(last.start[1], <<last.start[1]>>)
                   /\ Dist2(last.start[1].vx, last.start[1].vy) <= ((18 * SPEED) \div 10) ^ 2
                         => circles = last.start
    /\ last.op = "checkCollisions" =>
          /\ \A i \in 1 .. Len(last.start) : \A j \in (i + 1) .. Len(last.start) :
                last.start[i].color = last.start[j].color =>
                   \A st \in FrameStreams :
                      CollidePair(ScanStart(last.start, <<>>), i, j, st)
                         = ScanStart(last.start, <<>>)
          /\ \A n \in 1 .. Len(last.log) :
                last.log[n].before[1].color # last.log[n].before[2].color
          /\ last.emitted = 14 * Len(last.log)
          /\ \A n \in 1 .. Len(last.start) :
                n \notin InBattle(last.log) =>
                   /\ last.scanned[n] = last.start[n]
                   /\ last.start[n].id \notin last.toRemove
                   /\ \E m \in 1 .. Len(circles) : circles[m] = last.start[n]
          /\ (\A n \in 1 .. Len(last.start) : last.start[n].color = last.start[1].color)
                => circles = last.start /\ particles = <<>> /\ last.log = <<>>

\* C4's case: checkCollisions ran on two agents of one color with the same
\* center while the first of them fought a third agent of another color.
C4_Witness ==
    /\ last.op = "checkCollisions"
    /\ Len(last.start) = 3
    /\ last.start[1].color = last.start[2].color
    /\ last.start[1].x = last.start[2].x /\ last.start[1].y = last.start[2].y
    /\ Len(last.log) = 1
    /\ last.log[1].i = 1 /\ last.log[1].j = 3
    /\ last.scanned[2] = last.start[2]

\* The agent c lies within the square arena's interior: the arena's edges
\* inset by half the agent's size.
InsideSquare(c) ==
    /\ ~IsNaN(c.x) /\ ~IsNaN(c.y)
    /\ RDiv(canvas.width, 2) - RDiv(PLAYFIELD_WIDTH, 2) + RDiv(c.size, 2) <= c.x
    /\ c.x <= RDiv(canvas.width, 2) + RDiv(PLAYFIELD_WIDTH, 2) - RDiv(c.size, 2)
    /\ RDiv(canvas.height, 2) - RDiv(PLAYFIELD_HEIGHT, 2) + RDiv(c.size, 2) <= c.y
    /\ c.y <= RDiv(canvas.height, 2) + RDiv(PLAYFIELD_HEIGHT, 2) - RDiv(c.size, 2)

\* The agent c is at most radius away from the arena's center, up to the
\* rounding of the arithmetic (the normal has three digits, positions two).
WithinRadius(c, radius) ==
    /\ ~IsNaN(c.x) /\ ~IsNaN(c.y)
    /\ radius >= 0
    /\ Dist2(c.x - RDiv(canvas.width, 2), c.y - RDiv(canvas.height, 2))
          <= (radius + (radius \div 1000) + 2) * (radius + (radius \div 1000) + 2)

\* The agent c lies within the interior bound of the current arena.
InsideArena(c) ==
    IF currentArena.shape = "square" THEN InsideSquare(c)
    ELSE WithinRadius(c, RDiv(PLAYFIELD_WIDTH, 2) - RDiv(c.size, 2))

\* The interior bound of the current arena has room for the agent c.
ArenaFits(c) ==
    IF currentArena.shape = "square"
    THEN PLAYFIELD_WIDTH >= c.size /\ PLAYFIELD_HEIGHT >= c.size
    ELSE PLAYFIELD_WIDTH >= c.size

\* C5 as stated: after handleArenaBoundaries the agent's center lies within
\* the arena's interior bound, for every arena extent and every prior
\* position.
C5_ContainedAlways ==
    last.op = "handleArenaBoundaries" =>
       \A n \in 1 .. Len(circles) : InsideArena(circles[n])

\* C5, amended: after handleArenaBoundaries the agent's center lies within
\* the arena's interior bound for every prior position exactly when the
\* arena is at least as wide (and, for a square, as high) as the agent; in a
\* narrower arena the agent ends outside the bound, whatever its position.
C5_ContainedWhenFits ==
    last.op = "handleArenaBoundaries" =>
       \A n \in 1 .. Len(circles) :
          InsideArena(circles[n]) <=> ArenaFits(last.start[n])

\* C5's case: an agent outside a circular arena that has room for it was
\* put back on the bound.
C5_Witness ==
    /\ last.op = "handleArenaBoundaries"
    /\ currentArena.shape = "circle"
    /\ ArenaFits(last.start[1])
    /\ ~InsideArena(last.start[1])
    /\ InsideArena(circles[1])
    /\ circles[1].x # last.start[1].x

\* C7 (scenario 1): checkCollisions on exactly two colliding agents, one red
\* and one blue, in either list order: the red agent is removed, the
\* original blue agent is still in the collection, exactly one new blue
\* agent has been added, and the collection holds 2 agents.
C7_RedMeetsBlue ==
    /\ last.op = "checkCollisions"
    /\ Len(last.start) = 2
    /\ {last.start[1].color, last.start[2].color} = {"red", "blue"}
    /\ isColliding(last.start[1], last.start[2])
    => /\ Len(circles) = 2
       /\ \A n \in 1 .. 2 :
             /\ circles[n].color = "blue"
             /\ last.start[n].color = "red" => last.start[n].id \notin Ids(circles)
             /\ last.start[n].color = "blue" => circles[1].id = last.start[n].id
       /\ circles[2].id \notin Ids(last.start)
       /\ last.toAdd = <<circles[2]>>
       /\ Cardinality(last.toRemove) = 1

\* C7's case: the red agent comes first in the list, and the two collide.
C7_Witness ==
    /\ last.op = "checkCollisions"
    /\ Len(last.start) = 2
    /\ last.start[1].color = "red" /\ last.start[2].color = "blue"
    /\ isColliding(last.start[1], last.start[2])
    /\ Len(circles) = 2

\* The winner and the loser of the battle e of the log, as the pair was
\* reached and as applyBounce left them.
WinnerBefore(e) == IF e.before[1].id = e.winner THEN e.before[1] ELSE e.before[2]

WinnerAfter(e) == IF e.after[1].id = e.winner THEN e.after[1] ELSE e.after[2]

LoserBefore(e) == IF e.before[1].id = e.loser THEN e.before[1] ELSE e.before[2]

LoserAfter(e) == IF e.after[1].id = e.loser THEN e.after[1] ELSE e.after[2]

\* Squared distance of the centers of a and b.
Apart2(a, b) == Dist2(a.x - b.x, a.y - b.y)

\* Half the overlap of a and b, rounded.
HalfOverlap(a, b) == RDiv(RDiv(a.size + b.size, 2) - Sqrt(Apart2(a, b)), 2)

\* The component of a's velocity towards b (times the distance).
Towards(a, b) == a.vx * (b.x - a.x) + a.vy * (b.y - a.y)

\* C8 as stated: for every battle of checkCollisions the winner has the same
\* position and velocity after the step as before it.
C8_WinnerUnmodified ==
    last.op = "checkCollisions" =>
       \A n \in 1 .. Len(last.log) :
          /\ WinnerAfter(last.log[n]).x = WinnerBefore(last.log[n]).x
          /\ WinnerAfter(last.log[n]).y = WinnerBefore(last.log[n]).y
          /\ WinnerAfter(last.log[n]).vx = WinnerBefore(last.log[n]).vx
          /\ WinnerAfter(last.log[n]).vy = WinnerBefore(last.log[n]).vy

\* What applyBounce did to the winner w (wa afterwards) against the loser l
\* (la afterwards) when their centers differ: the pair is further apart,
\* the winner moved by at most half the overlap, kept its speed, and the
\* component of its velocity along the line of centers changed sign (all up
\* to the rounding of the normal, which has three digits).
Bounced(w, wa, l, la) ==
    /\ Apart2(wa, la) > Apart2(w, l)
    /\ Apart2(wa, w) <= (HalfOverlap(w, l) + (HalfOverlap(w, l) \div 50) + 2)
                           * (HalfOverlap(w, l) + (HalfOverlap(w, l) \div 50) + 2)
    /\ HalfOverlap(w, l) >= 2 => Apart2(wa, w) > 0
    /\ Abs(Sqrt(Dist2(wa.vx, wa.vy)) - Sqrt(Dist2(w.vx, w.vy))) <= 2
    /\ Towards(w, l) > 0 => Towards(wa, l) <= 0 /\ <<wa.vx, wa.vy>> # <<w.vx, w.vy>>
    /\ Towards(w, l) < 0 => Towards(wa, l) >= 0 /\ <<wa.vx, wa.vy>> # <<w.vx, w.vy>>

\* C8, amended: the winner of a battle is retained, but not unmodified: it
\* keeps its identity, color and size and stays in the collection unless it
\* loses a later battle of the same frame; applyBounce, which runs on both
\* agents before the battle is resolved, reverses the component of its
\* velocity along the line of centers (keeping its speed) and moves it away
\* from the loser by half the overlap; its position and velocity are
\* unchanged only when the two centers coincide.
C8_WinnerBounced ==
    last.op = "checkCollisions" =>
       \A n \in 1 .. Len(last.log) :
          /\ WinnerAfter(last.log[n]).id = WinnerBefore(last.log[n]).id
          /\ WinnerAfter(last.log[n]).color = WinnerBefore(last.log[n]).color
          /\ WinnerAfter(last.log[n]).size = WinnerBefore(last.log[n]).size
          /\ last.log[n].winner \notin last.toRemove => last.log[n].winner \in Ids(circles)
          /\ IF Apart2(WinnerBefore(last.log[n]), LoserBefore(last.log[n])) = 0
             THEN WinnerAfter(last.log[n]) = WinnerBefore(last.log[n])
             ELSE Bounced(WinnerBefore(last.log[n]), WinnerAfter(last.log[n]),
                          LoserBefore(last.log[n]), LoserAfter(last.log[n]))

\* C8's case: a battle between overlapping agents whose winner moves
\* towards the loser.
C8_Witness ==
    /\ last.op = "checkCollisions"
    /\ Len(last.log) >= 1
    /\ Apart2(WinnerBefore(last.log[1]), LoserBefore(last.log[1])) > 0
    /\ Towards(WinnerBefore(last.log[1]), LoserBefore(last.log[1])) > 0
    /\ last.log[1].winner \in Ids(circles)

\* The colors that have a non-zero count in cs.
ColorsOf(cs) == {cs[n].color : n \in 1 .. Len(cs)}

\* C10: the win check of a frame invokes onGameEnd if and only if exactly
\* one color has a non-zero count, with that color; when two or three
\* colors remain the engine stays running, reports nothing and has the next
\* frame scheduled; when no color remains no winner is reported.
C10_WinIffOneColor ==
    last.op = "gameLoop" /\ last.ran =>
       /\ last.reported # <<>> <=> Cardinality(ColorsOf(circles)) = 1
       /\ Cardinality(ColorsOf(circles)) = 1 =>
             /\ ColorsOf(circles) = {last.reported[1]}
             /\ ended = <<[run |-> runs, winner |-> last.reported[1]]>>
             /\ ~isRunning
       /\ Cardinality(ColorsOf(circles)) >= 2 =>
             /\ isRunning
             /\ ended = <<>>
             /\ last.scheduled /\ animationId \in pending
       /\ Cardinality(ColorsOf(circles)) = 0 =>
             /\ ended = <<>>
             /\ isRunning

\* C10's case: a frame began with two colors and its collision left one,
\* which the win check reported.
C10_Witness ==
    /\ last.op = "gameLoop" /\ last.ran
    /\ Cardinality(ColorsOf(last.start)) = 2
    /\ Cardinality(ColorsOf(circles)) = 1
    /\ last.reported # <<>>

\* onGameEnd has been invoked in the current run.
Notified == \E a \in 1 .. Len(ended) : ended[a].run = runs

\* No run has two invocations of onGameEnd, and an invocation's argument is
\* the one color with a non-zero count.
NotifiedOnce ==
    /\ \A a \in 1 .. Len(ended) : \A b \in 1 .. Len(ended) :
          ended[a].run = ended[b].run => a = b
    /\ \A a \in 1 .. Len(ended) : ended[a].run \in 1 .. runs
    /\ last.reported # <<>> =>
          /\ ColorsOf(circles) = {last.reported[1]}
          /\ ended[Len(ended)] = [run |-> runs, winner |-> last.reported[1]]

\* A frame callback that runs after the invocation, in the same run, leaves
\* the agents alone and invokes nothing.
QuietAfterNotified ==
    Notified /\ last'.op = "frame" =>
       /\ circles' = circles
       /\ ended' = ended
       /\ ~last'.ran /\ ~isRunning'

\* C9: in every run (from one startGame to the next reset or startGame)
\* onGameEnd is invoked at most once, its argument is the single color with
\* a non-zero count at that moment, and after the invocation no later frame
\* changes the agent collection or invokes onGameEnd again.
C9_NotifiedOnce == []NotifiedOnce /\ [][QuietAfterNotified]_vars

\* C9's case: onGameEnd was invoked in this run, and a frame callback ran
\* afterwards.
C9_Witness ==
    /\ Notified
    /\ last.op = "frame"
    /\ ~last.ran
    /\ circles # <<>>

\* C6 as stated: after startGame, with no reset or destroy from the host,
\* the repeated execution of gameLoop eventually reaches a state in which
\* exactly one color has a non-zero count and the engine has stopped.
C6_Terminates ==
    (runs > 0) ~> (Cardinality(ColorsOf(circles)) = 1 /\ ~isRunning)

\* A started engine has stopped exactly when one color is left, which it
\* then has reported; while it runs, the next frame is pending.
StoppedIffWon ==
    runs > 0 =>
       /\ ~isRunning <=> Cardinality(ColorsOf(circles)) = 1
       /\ ~isRunning <=> Notified
       /\ isRunning => animationId \in pending
       /\ Len(circles) = 3 * INITIAL_CIRCLES_PER_COLOR

\* A frame brings no extinct color back.
ColorsOnlyVanish == runs > 0 => ColorsOf(circles') \subseteq ColorsOf(circles)

\* C6, amended: termination is not guaranteed.  After startGame, with no
\* reset or destroy from the host, the engine stops when and only when a
\* frame ends with exactly one color left, and no frame brings a color back;
\* as long as two or three colors are left it keeps a next frame pending,
\* which it does for ever when the colors never come within reach of each
\* other.
C6_StopsExactlyOnWin == []StoppedIffWon /\ [][ColorsOnlyVanish]_vars

\* C6's case: a game left to itself was won in a frame the browser ran, and
\* the engine stopped.
C6_Witness ==
    /\ runs > 0
    /\ last.op = "frame" /\ last.ran
    /\ Cardinality(ColorsOf(last.start)) > 1
    /\ Cardinality(ColorsOf(circles)) = 1
    /\ ~isRunning

(***************************************************************************)
(* C11: the frame that determines the winner and the next-frame request.   *)
(***************************************************************************)
\* C11 as stated: when the win check finds exactly one color, the frame in
\* which the winner is determined requests no next frame and leaves none
\* pending.
C11_WinFrameSchedulesNothing ==
    last.reported # <<>> =>
       /\ ~isRunning
       /\ ~last.scheduled
       /\ pending = {}

\* C11's case: a frame found the winner, stopped the engine, and then
\* requested the next frame all the same (line 723), which is pending.
C11_Witness ==
    /\ last.reported # <<>>
    /\ ~isRunning
    /\ last.scheduled
    /\ animationId \in pending

(***************************************************************************)
(* C12: cancellation by reset and destroy.                                 *)
(***************************************************************************)
\* The engine is idle: stopped, with no agents and no particles.
Cleared == ~isRunning /\ circles = <<>> /\ particles = <<>>

\* A reset or destroy, from the host or from inside onGameEnd, leaves the
\* engine idle.
ClearedByReset == last.op \in {"reset", "destroy", "onGameEnd"} => Cleared

\* A reset or destroy from the host cancels the callback animationId held.
CancelledByReset ==
    last'.op \in {"reset", "destroy"} =>
        /\ animationId' = 0
        /\ animationId \notin pending'

\* While the engine is idle, whatever runs other than startGame (a callback
\* requested before or during the reset, another reset, a resize) executes
\* no engine logic: no frame body runs, the collections stay empty and
\* onGameEnd is not invoked.
QuietWhileCleared ==
    Cleared /\ last'.op # "startGame" =>
        /\ Cleared'
        /\ ~last'.ran
        /\ frames' = frames
        /\ ended' = ended

\* C12: after reset() or destroy() in any state (idle, running with a
\* callback pending, stopped after a win, or inside onGameEnd) the agent and
\* particle collections are empty, and no callback requested before or
\* during the call executes engine logic until startGame is called again.
C12_ResetCancels ==
    /\ []ClearedByReset
    /\ [][CancelledByReset]_vars
    /\ [][QuietWhileCleared]_vars

\* C12's case: the engine was started and then reset, a callback that was
\* still pending has run, and the engine is as the reset left it.
C12_Witness ==
    /\ runs > 0
    /\ last.op = "frame"
    /\ ~last.ran
    /\ Cleared

(***************************************************************************)
(* C13: only startGame makes the engine run.                               *)
(***************************************************************************)
\* A step that finds the engine stopped (idle, or stopped after a win) and
\* is not startGame leaves it stopped and runs no frame body.
StaysStopped ==
    ~isRunning /\ last'.op # "startGame" =>
        /\ ~isRunning'
        /\ ~last'.ran
        /\ frames' = frames

\* A frame body runs only in startGame or in a callback of a running engine.
RanWhileRunning ==
    last'.ran => last'.op = "startGame" \/ (isRunning /\ last'.op = "frame")

\* C13: the engine enters the running state (isRunning true, frames
\* advancing the simulation) only through startGame; no frame callback,
\* reset, destroy, setArena or win check moves an idle or stopped engine
\* back to running.
C13_OnlyStartGameStarts == [][StaysStopped /\ RanWhileRunning]_vars

\* C13's case: setArena was called on an engine that had stopped after a
\* win, and the engine is still stopped.
C13_Witness ==
    /\ last.op = "setArena"
    /\ ~isRunning
    /\ Notified
    /\ circles # <<>>

(***************************************************************************)
(* C14: startGame seeds a fresh population.                                *)
(***************************************************************************)
\* C14: startGame, called from idle or from stopped after a win, begins a
\* new run with a fresh population: right after the seeding (last.start,
\* the collection the first frame starts from) the collection holds exactly
\* INITIAL_CIRCLES_PER_COLOR agents of each color, and they are the agents
\* initializeCircles creates for the arena just chosen, none from before.
C14_FreshPopulation ==
    last.op = "startGame" =>
        /\ isRunning \/ last.reported # <<>>
        /\ Len(last.start) = 3 * INITIAL_CIRCLES_PER_COLOR
        /\ \A color \in Colors :
              getColorCounts(last.start)[color] = INITIAL_CIRCLES_PER_COLOR
        /\ Cardinality(Ids(last.start)) = Len(last.start)
        /\ \E st \in StartStreams :
              last.start = initializeCircles(canvas, PLAYFIELD_WIDTH,
                                             PLAYFIELD_HEIGHT, st, 2)

\* C14's case: the second startGame, called on an engine that had stopped
\* after a win and was not reset (the callback of the winning frame is
\* still pending beside the new one, and particles of the first run are
\* still there).
C14_Witness ==
    /\ last.op = "startGame"
    /\ runs = 2
    /\ Len(ended) >= 1 /\ ended[1].run = 1
    /\ Cardinality(pending) = 2
    /\ Len(particles) > last.emitted
    /\ Len(last.start) = 3 * INITIAL_CIRCLES_PER_COLOR

(***************************************************************************)
(* C15: the seeding places agents inside the arena's bounding box.         *)
(***************************************************************************)
\* The arena's bounding box, inset by half an agent's diameter on each
\* side, is not empty.
BoxFits ==
    /\ RDiv(PLAYFIELD_WIDTH, 2) >= RDiv(CIRCLE_SIZE, 2)
    /\ RDiv(PLAYFIELD_HEIGHT, 2) >= RDiv(CIRCLE_SIZE, 2)

\* C15 as stated: every agent created by the seeding lies in the arena's
\* bounding box inset by half its diameter,
\* centerX - halfWidth + size/2 <= x <= centerX + halfWidth - size/2 and the
\* same for y with halfHeight, for every anchor and every scatter offset.
C15_SeededInBox ==
    last.op = "initializeCircles" =>
        \A n \in 1 .. Len(circles) : InsideSquare(circles[n])

\* C15, amended: the seeding places every agent in the inset bounding box
\* when that box is not empty, that is when the arena is at least an agent's
\* diameter wide and high; in a smaller arena (a canvas under about 45 px)
\* the clamp Math.max(low, Math.min(high, x)) yields the low bound, which
\* then lies beyond the high one.
C15_SeededInBoxWhenFits ==
    last.op = "initializeCircles" =>
        /\ Len(circles) = 3 * INITIAL_CIRCLES_PER_COLOR
        /\ BoxFits => \A n \in 1 .. Len(circles) : InsideSquare(circles[n])
        /\ RDiv(PLAYFIELD_WIDTH, 2) < RDiv(CIRCLE_SIZE, 2) =>
              \A n \in 1 .. Len(circles) :
                 /\ circles[n].x = RDiv(canvas.width, 2) - RDiv(PLAYFIELD_WIDTH, 2)
                                      + RDiv(CIRCLE_SIZE, 2)
                 /\ ~InsideSquare(circles[n])

\* C15's case: a seeding whose scatter went beyond the box of an arena that
\* has room, so that the clamp put the agent on the box's edge.
C15_Witness ==
    /\ last.op = "initializeCircles"
    /\ BoxFits
    /\ currentArena.shape = "triangle"
    /\ \E n \in 1 .. Len(circles) :
          /\ circles[n].y = RDiv(canvas.height, 2) + RDiv(PLAYFIELD_HEIGHT, 2)
                               - RDiv(CIRCLE_SIZE, 2)
          /\ InsideSquare(circles[n])

(***************************************************************************)
(* C16: particles do not influence the simulation.                         *)
(***************************************************************************)
\* What of the engine e is not particles: the agents, the arena, the run
\* state, the notifications, the scheduling, and the frame's record (its
\* battles and the number of particles it emitted).
Simulation(e) == [e EXCEPT !.particles = <<>>]

\* C16: two engine states that agree on agents, arena and run state but
\* differ in their particles have, with the same random numbers, the same
\* agents, the same run state and the same onGameEnd notifications after
\* a frame: the two still agree on all but particles, and so after any
\* sequence of frames.
C16_ParticlesDoNotInterfere ==
    isRunning /\ particles # <<>> =>
        \A st \in FrameStreams :
            Simulation(gameLoop(Engine, "frame", st, 0))
               = Simulation(gameLoop([Engine EXCEPT !.particles = <<>>], "frame", st, 0))

\* C16's case: a running engine that holds particles of an earlier frame
\* and whose next frame has a battle (which draws random numbers, emits
\* particles and adds a clone).
C16_Witness ==
    /\ isRunning
    /\ particles # <<>>
    /\ \E st \in FrameStreams :
          /\ gameLoop(Engine, "frame", st, 0).last.log # <<>>
          /\ Len(gameLoop(Engine, "frame", st, 0).particles) > 14

(***************************************************************************)
(* C17: resizing the drawing surface.                                      *)
(***************************************************************************)
\* The arena of the current shape and size class for the canvas as it is.
ArenaForCanvas ==
    createArenaConfig(currentArena.shape, currentArena.size, BaseSize(canvas))

\* C17 as stated: when the drawing surface is resized (while idle before
\* startGame, or at any later time) the engine recomputes the arena's pixel
\* width and height from the new surface size for the same shape and size
\* class, and the agent and particle collections are unchanged.
C17_ResizeRecomputesArena ==
    last.op = "resize" =>
        /\ currentArena = ArenaForCanvas
        /\ PLAYFIELD_WIDTH = ArenaForCanvas.width
        /\ PLAYFIELD_HEIGHT = ArenaForCanvas.height
        /\ circles = last.start

\* C17's case: the surface was resized while the engine was idle, before
\* any startGame; the agents are untouched and the arena still has the
\* extents computed for the old surface.
C17_Witness ==
    /\ last.op = "resize"
    /\ runs = 0
    /\ circles = <<>>
    /\ currentArena.shape = ArenaForCanvas.shape
    /\ currentArena.width # ArenaForCanvas.width
    /\ PLAYFIELD_WIDTH = currentArena.width

SeenBy(n) ==
    [m \in 1 .. Len(last.start) |-> IF m < n THEN last.moved[m] ELSE last.start[m]]

LoserIndex(e) == IF e.after[1].id = e.loser THEN e.i ELSE e.j

\* The pair (p, q) comes after the pair (i, j) in the scan.
ScannedAfter(p, q, i, j) == p > i \/ (p = i /\ q > j)

\* C19: the removals and additions of a collision pass are made after the
\* pairwise scan.  Once an agent has lost a battle, no later pair of the
\* scan that contains it is bounced, emits particles or is battled, so a
\* marked agent never wins and spawns no clone; and a clone created in the
\* pass takes part in no collision of the pass.
C19_MarkedAndClonesSitOut ==
    last.op \in {"checkCollisions", "gameLoop"} /\ last.log # <<>> =>
        /\ Ids(last.scanned) = Ids(last.moved)
        /\ Len(last.scanned) = Len(last.moved)
        /\ last.emitted = 14 * Len(last.log)
        /\ Len(last.toAdd) = Len(last.log)
        /\ \A a \in 1 .. Len(last.log) :
              /\ last.scanned[LoserIndex(last.log[a])].id = last.log[a].loser
              /\ last.scanned[LoserIndex(last.log[a])]
                    \in {last.log[a].after[1], last.log[a].after[2]}
              /\ last.log[a].clone.id \notin Ids(last.scanned)
              /\ \E m \in 1 .. Len(circles) : circles[m] = last.log[a].clone
              /\ \A b \in 1 .. Len(last.log) :
                    /\ last.log[a].clone.id
                          \notin {last.log[b].before[1].id, last.log[b].before[2].id}
                    /\ a < b =>
                          last.log[a].loser
                             \notin {last.log[b].before[1].id, last.log[b].before[2].id}

\* C19's case: an agent lost a battle and a later pair of the scan puts it
\* with an overlapping agent of another color; that pair was skipped.
C19_Witness ==
    /\ last.op = "checkCollisions"
    /\ Len(last.log) = 1
    /\ \E m \in 1 .. Len(last.scanned) :
          /\ m # LoserIndex(last.log[1])
          /\ ScannedAfter(Min(m, LoserIndex(last.log[1])), Max(m, LoserIndex(last.log[1])),
                          last.log[1].i, last.log[1].j)
          /\ last.scanned[m].color # last.scanned[LoserIndex(last.log[1])].color
          /\ isColliding(last.scanned[m], last.scanned[LoserIndex(last.log[1])])

(***************************************************************************)
(* C20: normalizations and zero-length differences.                        *)
(***************************************************************************)
\* The agent c has a number for every coordinate of position and velocity.
Defined(c) == ~IsNaN(c.x) /\ ~IsNaN(c.y) /\ ~IsNaN(c.vx) /\ ~IsNaN(c.vy)

\* The centers of a and b coincide exactly.
Coincide(a, b) == a.x = b.x /\ a.y = b.y

\* applyMagneticForces skips the agents whose center coincides with the
\* current agent's: the result is the one computed without them, and it is
\* a number.
ForceSkippedAtZero ==
    last.op = "applyMagneticForces" =>
        LET Apart(c) == c.id = last.start[1].id \/ ~Coincide(c, last.start[1])
        IN  /\ circles[1] = applyMagneticForces(last.start[1],
                                                SelectSeq(last.start, Apart))
            /\ Defined(circles[1])

\* A pair of different colors with coinciding centers is not bounced (both
\* agents keep position and velocity), and its battle is resolved all the
\* same.
BounceSkippedAtZero ==
    last.op = "checkCollisions" =>
        /\ \A a \in 1 .. Len(last.log) :
              /\ Coincide(last.log[a].before[1], last.log[a].before[2]) =>
                    last.log[a].after = last.log[a].before
              /\ Defined(last.log[a].after[1]) /\ Defined(last.log[a].after[2])
        /\ Len(last.start) = 2 /\ Coincide(last.start[1], last.start[2])
              /\ last.start[1].color # last.start[2].color =>
                 /\ Len(last.log) = 1
                 /\ last.log[1].loser \in last.toRemove
                 /\ last.log[1].loser \notin Ids(circles)

\* The boundary routine leaves every agent with numbers for position and
\* velocity, for every arena extent.
DefinedAfterBoundaries ==
    last.op = "handleArenaBoundaries" =>
        \A n \in 1 .. Len(circles) : Defined(circles[n])

\* C20 as stated: every normalization of a direction vector is guarded
\* against a zero-length difference, so no agent position or velocity ever
\* becomes NaN: for two agents of different colors with coinciding centers
\* the force contribution and the bounce are skipped while the battle is
\* still resolved, and an agent at distance zero from the arena's center is
\* handled by the radial boundary routine without dividing by zero, for
\* every arena extent.
C20_NormalizationsGuarded ==
    /\ ForceSkippedAtZero
    /\ BounceSkippedAtZero
    /\ DefinedAfterBoundaries

\* C20's case: an agent exactly at the center of a radial arena narrower
\* than the agent went through the boundary routine and came out with NaN
\* for position and velocity.
C20_Witness ==
    /\ last.op = "handleArenaBoundaries"
    /\ currentArena.shape # "square"
    /\ PLAYFIELD_WIDTH < CIRCLE_SIZE
    /\ last.start[1].x = RDiv(canvas.width, 2)
    /\ last.start[1].y = RDiv(canvas.height, 2)
    /\ IsNaN(circles[1].x) /\ IsNaN(circles[1].vx)

(***************************************************************************)
(* C21: the speed limit of the force-field step.                           *)
(***************************************************************************)
\* The velocity of the first agent as accumulated by applyMagneticForces,
\* before the limit: its velocity plus the total force on it.
Accumulated ==
    AddVec(<<last.start[1].vx, last.start[1].vy>>,
           TotalForce(last.start[1], last.start, 1))

\* The velocity (vx, vy) has the direction of (ax, ay), up to the rounding
\* of the two components.
SameDirection(vx, vy, ax, ay) ==
    /\ vx * ax + vy * ay > 0
    /\ Abs(vx * ay - vy * ax) <= Abs(ax) + Abs(ay)

\* C21: after the force-field step an agent's speed is at most 1.8 x SPEED
\* (up to the rounding of the arithmetic, 0.01 px): a velocity whose
\* magnitude exceeds the limit is scaled down to the limit with its
\* direction preserved, and a velocity within the limit is left as
\* accumulated.
C21_SpeedLimited ==
    last.op = "applyMagneticForces" =>
        /\ MaxSpeed = 450
        /\ Dist2(circles[1].vx, circles[1].vy) <= (MaxSpeed + 1) * (MaxSpeed + 1)
        /\ Dist2(Accumulated[1], Accumulated[2]) <= MaxSpeed * MaxSpeed =>
              /\ circles[1].vx = Accumulated[1]
              /\ circles[1].vy = Accumulated[2]
        /\ Dist2(Accumulated[1], Accumulated[2]) > MaxSpeed * MaxSpeed =>
              /\ Dist2(circles[1].vx, circles[1].vy) >= (MaxSpeed - 1) * (MaxSpeed - 1)
              /\ SameDirection(circles[1].vx, circles[1].vy,
                               Accumulated[1], Accumulated[2])
        /\ circles[1].x = last.start[1].x /\ circles[1].y = last.start[1].y

\* C21's case: the force on an agent near the limit took its speed beyond
\* the limit, and the step scaled the velocity down.
C21_Witness ==
    /\ last.op = "applyMagneticForces"
    /\ TotalForce(last.start[1], last.start, 1) # <<0, 0>>
    /\ Dist2(last.start[1].vx, last.start[1].vy) <= MaxSpeed * MaxSpeed
    /\ Dist2(Accumulated[1], Accumulated[2]) > MaxSpeed * MaxSpeed
    /\ <<circles[1].vx, circles[1].vy>> # Accumulated

(***************************************************************************)
(* C22: the collision test.                                                *)
(***************************************************************************)
\* The centers of a and b are closer than the sum of their radii.
Closer(a, b) ==
    4 * ((a.x - b.x) * (a.x - b.x) + (a.y - b.y) * (a.y - b.y))
       < (a.size + b.size) * (a.size + b.size)

\* C22: isColliding(a, b) is true exactly when the distance between the
\* two centers is strictly less than (a.size + b.size) / 2; touching agents
\* do not collide, and the result is symmetric.  Seen in the collision
\* pass: a pair of different colors is battled exactly when it is closer.
C22_CollidingIffCloser ==
    last.op = "checkCollisions" =>
        /\ \A m \in 1 .. Len(last.start) : \A n \in 1 .. Len(last.start) :
              /\ isColliding(last.start[m], last.start[n])
                    <=> Closer(last.start[m], last.start[n])
              /\ isColliding(last.start[m], last.start[n])
                    <=> isColliding(last.start[n], last.start[m])
        /\ Len(last.start) = 2 /\ last.start[1].color # last.start[2].color =>
              (last.log # <<>> <=> Closer(last.start[1], last.start[2]))

\* C22's case: two agents of different colors whose centers are exactly
\* the sum of their radii apart went through the collision pass, and
\* nothing happened to them.
C22_Witness ==
    /\ last.op = "checkCollisions"
    /\ Len(last.start) = 2
    /\ last.start[1].color # last.start[2].color
    /\ Apart2(last.start[1], last.start[2]) = CIRCLE_SIZE * CIRCLE_SIZE
    /\ last.log = <<>>
    /\ circles = last.start

(***************************************************************************)
(* C23: what applyBounce does to an overlapping pair.                      *)
(***************************************************************************)
\* The speed of the agent c.
SpeedOf(c) == Sqrt(Dist2(c.vx, c.vy))

\* The velocity of ca is the velocity of c reflected about the normal of
\* the line from a to b: the component along the line changed sign and the
\* component across it stayed (both times the distance, up to rounding).
Reflected(c, ca, a, b) ==
    /\ Abs((ca.vx * (b.x - a.x) + ca.vy * (b.y - a.y))
              + (c.vx * (b.x - a.x) + c.vy * (b.y - a.y)))
          <= 3 * (Abs(b.x - a.x) + Abs(b.y - a.y))
    /\ Abs((ca.vx * (b.y - a.y) - ca.vy * (b.x - a.x))
              - (c.vx * (b.y - a.y) - c.vy * (b.x - a.x)))
          <= 3 * (Abs(b.x - a.x) + Abs(b.y - a.y))

\* The agent ca is c moved by half the overlap of a and b along their line
\* of centers, away from `from`.
PushedHalf(c, ca, a, b, from) ==
    /\ Abs(Sqrt(Apart2(c, ca)) - HalfOverlap(a, b)) <= 3 + (HalfOverlap(a, b) \div 50)
    /\ Apart2(ca, from) >= Apart2(c, from)

\* C23: applyBounce on two overlapping agents of different colors with
\* distinct centers preserves each agent's own speed, changing the
\* direction of each velocity by reflection about the collision normal, and
\* pushes each agent away from the other along the normal by half the
\* overlap, so that afterwards the distance between the centers is the sum
\* of the radii (all up to the rounding of the arithmetic: the normal has
\* three digits, so a push may be off by a fiftieth).
C23_BouncePreservesSpeedAndSeparates ==
    last.op = "checkCollisions" =>
        \A n \in 1 .. Len(last.log) :
            Apart2(last.log[n].before[1], last.log[n].before[2]) > 0 =>
                /\ \A s \in 1 .. 2 :
                      /\ Abs(SpeedOf(last.log[n].after[s])
                                - SpeedOf(last.log[n].before[s])) <= 2
                      /\ Reflected(last.log[n].before[s], last.log[n].after[s],
                                   last.log[n].before[1], last.log[n].before[2])
                      /\ PushedHalf(last.log[n].before[s], last.log[n].after[s],
                                    last.log[n].before[1], last.log[n].before[2],
                                    last.log[n].before[3 - s])
                /\ Abs(Sqrt(Apart2(last.log[n].after[1], last.log[n].after[2]))
                          - RDiv(last.log[n].before[1].size + last.log[n].before[2].size, 2))
                      <= 4 + (HalfOverlap(last.log[n].before[1], last.log[n].before[2]) \div 25)

\* C23's case: a battle of two agents 10 px apart, neither moving along the
\* line of centers only; afterwards they are 25 px apart.
C23_Witness ==
    /\ last.op = "checkCollisions"
    /\ Len(last.log) >= 1
    /\ Apart2(last.log[1].before[1], last.log[1].before[2]) = 1000 * 1000
    /\ last.log[1].after[2].vx # last.log[1].before[2].vx
    /\ last.log[1].after[2].vy = last.log[1].before[2].vy
    /\ Apart2(last.log[1].after[1], last.log[1].after[2]) >= 2496 * 2496

\* ---------------------------------------------------------------------
\* A game that is played again.  The host starts a game and, once it has
\* been won and the engine has stopped, starts the next one without a
\* reset in between (GameCanvas.tsx lines 47-55: only the phase 'ready'
\* resets); startGame keeps the particles of the game before.
ReplayStart ==
    /\ runs = 1
    /\ ~isRunning
    /\ \E st \in LiveStreams : Becomes(Uncounted(startGame(Engine, st)))

ReplayNext == LiveStart \/ LiveFrame \/ ReplayStart

SpecReplay == Init /\ [][ReplayNext]_vars /\ WF_pending(Scheduled)

\* Every particle of the collection is alive.
ParticlesAlive ==
    \A n \in 1 .. Len(particles) :
        particles[n].life > 0 /\ particles[n].life <= particles[n].maxLife

\* The decrement of a frame, 1/60 s, in the unit of the particles' life.
LifeDecrement == 4

\* A frame that runs ages the particles it found by the decrement, keeps
\* those that still have life in their order, and appends the ones it
\* emitted; a callback that does not run leaves the collection alone.
ParticlesAge ==
    IF last'.ran
    THEN LET kept == SelectSeq(particles, LAMBDA p : p.life - LifeDecrement > 0)
         IN  /\ Len(particles') = Len(kept) + last'.emitted
             /\ \A n \in 1 .. Len(kept) :
                    /\ particles'[n].life = kept[n].life - LifeDecrement
                    /\ particles'[n].maxLife = kept[n].maxLife
                    /\ particles'[n].color = kept[n].color
             /\ \A n \in Len(kept) + 1 .. Len(particles') :
                    particles'[n].life = particles'[n].maxLife
    ELSE particles' = particles

\* C24: every frame decreases each particle's life by 1/60 and discards
\* the particles whose life is then at most 0, so that every particle of
\* the collection has life > 0, and while the engine keeps running the
\* particles are eventually all destroyed.
C24_ParticlesExpire ==
    /\ []ParticlesAlive
    /\ [][ParticlesAge]_vars
    /\ (isRunning /\ particles # <<>>) ~> (~isRunning \/ particles = <<>>)

\* The second game runs on after the last particle of the first game has
\* been discarded.
C24_Witness ==
    /\ runs = 2
    /\ isRunning
    /\ last.op = "frame"
    /\ last.ran
    /\ particles = <<>>

\* The four shapes of the enumeration ArenaShape.
KnownShapes == { Shapes[n] : n \in 1 .. 4 }

\* C25: an unknown arena shape that reaches a dispatch is surfaced as a
\* fatal error, so it never becomes the current arena and the arena's
\* extents are never undefined (a throw in createArenaConfig would leave
\* the engine's arena as it was).
C25_UnknownShapeIsFatal ==
    /\ currentArena.shape \in KnownShapes
    /\ ToString(currentArena.width) # ToString(Undefined)
    /\ ToString(currentArena.height) # ToString(Undefined)
    /\ ToString(PLAYFIELD_WIDTH) # ToString(Undefined)

\* C25's case: setArena was called with a shape outside the enumeration.
C25_Witness ==
    /\ last.op = "setArena"
    /\ last.start[1] \in UnknownShapes

\* C26: createArenaConfig returns the shape and size it was given, width =
\* base x 0.7 / 0.85 / 1.0 for small / medium / large, and height = width
\* for square and circle, 0.866 x width for hexagon and triangle; and the
\* playfield's width and height are the current arena's.
C26_ArenaExtents ==
    /\ PLAYFIELD_WIDTH = currentArena.width
    /\ PLAYFIELD_HEIGHT = currentArena.height
    /\ (last.op = "setArena" /\ last.start[1] \in KnownShapes) =>
          LET base == Min(canvas.width, canvas.height) - 2000
              scale == CASE last.start[2] = "small" -> 70
                         [] last.start[2] = "medium" -> 85
                         [] last.start[2] = "large" -> 100
              w == currentArena.width
              h == currentArena.height
          IN  /\ currentArena.shape = last.start[1]
              /\ currentArena.size = last.start[2]
              /\ Abs((w * 100) - (base * scale)) <= 50
              /\ IF currentArena.shape \in {"square", "circle"}
                 THEN h = w
                 ELSE Abs((h * 1000) - (w * 866)) <= 500

\* setArena made a hexagon or a triangle, whose height is not its width.
C26_Witness ==
    /\ last.op = "setArena"
    /\ last.start[1] \in {"hexagon", "triangle"}
    /\ last.start[2] = "small"
    /\ currentArena.height < currentArena.width
    /\ PLAYFIELD_HEIGHT = currentArena.height

\* The number of agents of the color col among cs.
Population(cs, col) == Cardinality({n \in 1 .. Len(cs) : cs[n].color = col})

\* Within a run, a color without agents stays without agents.
ExtinctStaysExtinct ==
    runs' = runs =>
        \A col \in Colors : Population(circles, col) = 0 => Population(circles', col) = 0

\* Every agent a frame creates is the clone of the winner of one of its
\* battles and has the winner's color, and the winner is an agent the
\* frame found (which a later battle of the frame may still remove).
ClonesOfLiveWinners ==
    last'.ran =>
        /\ Len(last'.toAdd) = Len(last'.log)
        /\ \A n \in 1 .. Len(last'.log) :
              LET entry == last'.log[n]
                  winnerCircle == IF entry.before[1].id = entry.winner
                                  THEN entry.before[1] ELSE entry.before[2]
              IN  /\ last'.toAdd[n] = entry.clone
                  /\ entry.clone.color = winnerCircle.color
                  /\ entry.winner \notin {last'.log[m].loser : m \in 1 .. n - 1}
                  /\ \E m \in 1 .. Len(last'.start) :
                        /\ last'.start[m].id = entry.winner
                        /\ last'.start[m].color = winnerCircle.color

\* C27: extinction is permanent.  A color whose count is zero at the end of
\* a frame of a run has count zero at the end of every later frame of that
\* run, new agents being clones of a live winner of the same color.
C27_ExtinctionPermanent == [][ExtinctStaysExtinct /\ ClonesOfLiveWinners]_vars

\* A frame with a battle ran while a color was already extinct.
C27_Witness ==
    /\ last.op = "frame"
    /\ last.ran
    /\ last.start # <<>>
    /\ \E col \in Colors : Population(last.start, col) = 0 /\ Population(circles, col) = 0
    /\ last.log # <<>>

\* The colors that have agents in the population a frame found and none in
\* the population it left.
WentExtinct(before, after) ==
    {col \in Colors : Population(before, col) > 0 /\ Population(after, col) = 0}

\* The colors of the winners of a frame's battles.
Eliminators(log) ==
    {(IF log[n].before[1].id = log[n].winner
      THEN log[n].before[1] ELSE log[n].before[2]).color : n \in 1 .. Len(log)}

\* C28: in one frame at most one color goes extinct, and a color that
\* eliminated an agent in the frame has an agent at its end; so every frame
\* of a started game finds and leaves a population that is not empty, and
\* the win check sees at least one color.
C28_NeverEmpty ==
    last.ran =>
        /\ Cardinality(WentExtinct(last.start, circles)) <= 1
        /\ \A col \in Eliminators(last.log) : Population(circles, col) >= 1
        /\ last.start # <<>>
        /\ circles # <<>>
        /\ last.active # <<>>

\* A frame in which a color went extinct, and in which a winner was itself
\* eliminated so that its color lives on in the clone only.
C28_Witness ==
    /\ last.ran
    /\ WentExtinct(last.start, circles) # {}
    /\ \E n \in 1 .. Len(last.log) :
          /\ \A m \in 1 .. Len(circles) : circles[m].id # last.log[n].winner
          /\ \E m \in 1 .. Len(circles) : circles[m] = last.log[n].clone

\* The color each color beats: blue beats red, red beats green, green
\* beats blue.
PreyOf == [blue |-> "red", red |-> "green", green |-> "blue"]

\* The color of the agent with the identifier id in a battle's pair.
ColorIn(entry, id) ==
    IF entry.before[1].id = id THEN entry.before[1].color ELSE entry.before[2].color

\* A frame that runs lowers the count of a color only if the color lost a
\* battle of the frame, and every battle is lost to the predator color.
DecreasesOnlyByBattle ==
    last'.ran =>
        /\ \A n \in 1 .. Len(last'.log) :
              PreyOf[ColorIn(last'.log[n], last'.log[n].winner)]
                  = ColorIn(last'.log[n], last'.log[n].loser)
        /\ \A col \in Colors :
              Population(circles', col) < Population(last'.start, col) =>
                  \E n \in 1 .. Len(last'.log) :
                      ColorIn(last'.log[n], last'.log[n].loser) = col

\* With exactly the colors A and its prey B left, a frame that runs does
\* not raise the count of B nor lower the count of A, and leaves no color
\* but these two.
TwoLeft(A) == ColorsOf(circles) = {A, PreyOf[A]}

PredatorTakesOver ==
    \A A \in Colors :
        (TwoLeft(A) /\ runs' = runs) =>
            /\ last'.ran =>
                  /\ Population(circles', PreyOf[A]) <= Population(circles, PreyOf[A])
                  /\ Population(circles', A) >= Population(circles, A)
                  /\ ColorsOf(circles') \subseteq {A, PreyOf[A]}
            /\ \A n \in Len(ended) + 1 .. Len(ended') : ended'[n].winner = A

\* C29: a color's count decreases only through battles lost to its
\* predator; once exactly two colors A and B remain, A beating B, the count
\* of B never increases, the count of A never decreases, and only A is
\* reported to onGameEnd for that run.
C29_PredatorWins == [][DecreasesOnlyByBattle /\ PredatorTakesOver]_vars

\* A frame found exactly two colors, the predator eliminated an agent of
\* its prey, and onGameEnd was told the predator.
C29_Witness ==
    /\ last.op = "frame"
    /\ last.ran
    /\ Cardinality(ColorsOf(last.start)) = 2
    /\ last.log # <<>>
    /\ last.reported # <<>>
    /\ PreyOf[last.reported[1]] \in ColorsOf(last.start)
    /\ Population(last.start, last.reported[1]) >= 2
    /\ ended # <<>>
    /\ ended[Len(ended)].winner = last.reported[1]

\* C30: at any time at most one next-frame continuation of the engine is
\* pending, and animationId refers to it; also after startGame on a
\* running engine, and after startGame following a win whose frame's
\* continuation has not fired yet.
C30_OneContinuation ==
    /\ Cardinality(pending) <= 1
    /\ pending # {} => pending = {animationId}

\* C30's case: startGame ran while a continuation was pending, and the
\* engine runs with two continuations pending.
C30_Witness ==
    /\ last.op = "startGame"
    /\ isRunning
    /\ Cardinality(pending) = 2
    /\ animationId \in pending

\* The engine has stopped on a win of the current run.
StoppedWon == ~isRunning /\ runs > 0 /\ Notified

\* startGame on a stopped-won engine leaves only the particles that its
\* own first frame emitted.
StartedWithoutOldParticles ==
    (StoppedWon /\ last'.op = "startGame") =>
        /\ Len(particles') = last'.emitted
        /\ \A n \in 1 .. Len(particles') : particles'[n].life = particles'[n].maxLife

\* C31: a new run starts without the particles of an earlier run.  After
\* startGame on a stopped-won engine, with no reset in between, the
\* collection at the first frame of the new run holds no particle that was
\* created during the run before.
C31_NoParticlesOfEarlierRun == [][StartedWithoutOldParticles]_vars

\* C31's case: the second run was started after the first was won, and
\* the collection holds a particle that has aged, so is older than the
\* run's first frame.
C31_Witness ==
    /\ last.op = "startGame"
    /\ runs = 2
    /\ isRunning
    /\ \E a \in 1 .. Len(ended) : ended[a].run = 1
    /\ \E n \in 1 .. Len(particles) : particles[n].life < particles[n].maxLife

(***************************************************************************)
(* The host: the component SimulationGame with its BettingInterface, and   *)
(* the engine it drives through GameCanvas.  GameCanvas builds the engine  *)
(* anew whenever onGameEnd changes, which handleGameEnd does with every    *)
(* change of bettingState; it calls startGame when the phase becomes       *)
(* 'playing' and reset when it becomes 'ready'.                            *)
(***************************************************************************)
\* The bank up to which bets are followed.
MaxBank == 200

\* What a player types into the wager field; NaN is a text without digits.
TypedWagers == << -5, 50, 1000, NaN >>

\* parseInt(e.target.value) || 1
ParseIntOr1(typed) == IF IsNaN(typed) THEN 1 ELSE IF typed = 0 THEN 1 ELSE typed

\* The engine GameCanvas builds after destroying the engine e.
Rebuilt(e) ==
    [Constructed(e.canvas.width) EXCEPT !.pending = reset(e, "destroy").pending]

\* handleGameEnd that takes twice the wager for a lost bet.
handleGameEnd_TakesDouble(bs, winningColor) ==
    [bettingState |-> [bs EXCEPT !.bank = IF bs.predictedWinner = winningColor
                                          THEN bs.bank + bs.wager
                                          ELSE bs.bank - 2 * bs.wager],
     gamePhase |-> IF (IF bs.predictedWinner = winningColor
                       THEN bs.bank + bs.wager ELSE bs.bank - 2 * bs.wager) <= 0
                   THEN "broke" ELSE "ended",
     winner |-> winningColor]

\* handleGameEnd with the betting state bs of its closure.
handleGameEnd(bs, winningColor) ==
    LET won == bs.predictedWinner = winningColor
        newBank == IF won THEN bs.bank + bs.wager ELSE bs.bank - bs.wager
    IN  [bettingState |-> [bs EXCEPT !.bank = newBank],
         gamePhase |-> IF newBank <= 0 THEN "broke" ELSE "ended",
         winner |-> winningColor]

\* BettingInterface is mounted: its useState's initial values.
BettingMounted ==
    /\ selectedColor' = Null
    /\ wagerAmount' = INITIAL_WAGER_AMOUNT
    /\ errorMessage' = ""

\* The engine e after a frame or a start, in the phase and with the betting
\* state bs the host then has; when the engine reported a winner,
\* handleGameEnd has run and GameCanvas has rebuilt the engine.
Reported(e, bs, phase) ==
    IF e.last.reported # <<>>
    THEN /\ bettingState' = handleGameEnd(bs, e.last.reported[1]).bettingState
         /\ gamePhase' = handleGameEnd(bs, e.last.reported[1]).gamePhase
         /\ winner' = handleGameEnd(bs, e.last.reported[1]).winner
         /\ EngineBecomes([Rebuilt(e) EXCEPT !.last = e.last])
    ELSE /\ bettingState' = bs
         /\ gamePhase' = phase
         /\ winner' = winner
         /\ EngineBecomes(e)

\* The button 'Start' of the ready screen.
handleStartBetting ==
    /\ gamePhase = "ready"
    /\ gamePhase' = "betting"
    /\ winner' = Null
    /\ BettingMounted
    /\ UNCHANGED bettingState
    /\ UNCHANGED engineVars

\* A click on one of the three colors.
SelectColor ==
    /\ gamePhase = "betting"
    /\ \E color \in Colors : selectedColor' = color
    /\ UNCHANGED <<gamePhase, winner, bettingState, wagerAmount, errorMessage>>
    /\ UNCHANGED engineVars

\* The wager field's onChange.
TypeWager ==
    /\ gamePhase = "betting"
    /\ \E n \in 1 .. Len(TypedWagers) :
          wagerAmount' = Min(bettingState.bank, Max(1, ParseIntOr1(TypedWagers[n])))
    /\ UNCHANGED <<gamePhase, winner, bettingState, selectedColor, errorMessage>>
    /\ UNCHANGED engineVars

\* handleBetSubmit refuses the bet.
BetRefused ==
    /\ gamePhase = "betting"
    /\ selectedColor = Null \/ wagerAmount <= 0 \/ wagerAmount > bettingState.bank
    /\ errorMessage' = IF selectedColor = Null THEN "Please select a color first."
                       ELSE IF wagerAmount <= 0
                            THEN "Wager amount must be greater than 0."
                            ELSE "You cannot bet more than your bank balance."
    /\ UNCHANGED <<gamePhase, winner, bettingState, selectedColor, wagerAmount>>
    /\ UNCHANGED engineVars

\* handleBetSubmit accepts the bet: handlePlaceBet, then GameCanvas rebuilds
\* the engine with the new handleGameEnd and starts the game.
BetPlaced ==
    /\ gamePhase = "betting"
    /\ selectedColor # Null
    /\ wagerAmount > 0
    /\ wagerAmount <= bettingState.bank
    /\ bettingState.bank + wagerAmount <= MaxBank
    /\ \E st \in StartStreams :
          Reported(startGame(Rebuilt(Engine), st),
                   [bettingState EXCEPT !.wager = wagerAmount,
                                        !.predictedWinner = selectedColor],
                   "playing")
    /\ UNCHANGED <<selectedColor, wagerAmount>>
    /\ errorMessage' = ""

\* The button 'Cancel' of the betting form; the phase 'ready' resets the engine.
BetCancelled ==
    /\ gamePhase = "betting"
    /\ gamePhase' = "ready"
    /\ UNCHANGED <<winner, bettingState, selectedColor, wagerAmount, errorMessage>>
    /\ EngineBecomes(reset(Engine, "reset"))

\* A callback of requestAnimationFrame runs; a frame that finds the winner
\* calls handleGameEnd.
HostFrame ==
    /\ frames < MaxFrames
    /\ \E h \in pending : \E st \in FrameStreams :
          Reported(Ran(gameLoop(Engine, "frame", st, 0), h), bettingState, gamePhase)
    /\ UNCHANGED <<selectedColor, wagerAmount, errorMessage>>

\* The button 'Play again' of the result screen.
handleRestart ==
    /\ gamePhase = "ended"
    /\ bettingState' = [bettingState EXCEPT !.wager = 0, !.predictedWinner = Null]
    /\ gamePhase' = "betting"
    /\ winner' = Null
    /\ BettingMounted
    /\ EngineBecomes(Rebuilt(Engine))

\* The button 'Quit' of the result screen and of the broke screen; the
\* phase 'ready' resets the rebuilt engine.
handleQuit ==
    /\ gamePhase \in {"ended", "broke"}
    /\ bettingState' = [bank |-> INITIAL_BANK, wager |-> 0, predictedWinner |-> Null]
    /\ gamePhase' = "ready"
    /\ winner' = Null
    /\ UNCHANGED <<selectedColor, wagerAmount, errorMessage>>
    /\ EngineBecomes(reset(Rebuilt(Engine), "reset"))

HostNext ==
    \/ handleStartBetting \/ SelectColor \/ TypeWager \/ BetRefused \/ BetPlaced
    \/ BetCancelled \/ HostFrame \/ handleRestart \/ handleQuit

SpecHost == Init /\ [][HostNext]_vars

\* The bank is never negative; the betting phase is entered with credits
\* only; a game is played on an accepted bet; and after a game end the
\* phase is 'broke' exactly when the bank is used up.
BankInvariant ==
    /\ bettingState.bank >= 0
    /\ gamePhase = "betting" => bettingState.bank > 0
    /\ gamePhase = "playing" =>
          /\ bettingState.predictedWinner \in Colors
          /\ bettingState.wager > 0
          /\ bettingState.wager <= bettingState.bank
    /\ gamePhase \in {"ended", "broke"} =>
          /\ winner \in Colors
          /\ gamePhase = "broke" <=> bettingState.bank <= 0

\* A game end adds the wager to the bank for a won bet and subtracts it
\* for a lost one; a bet is accepted only as the form holds it; and no
\* other step changes the bank, but quitting, which restores it.
BankBookkeeping ==
    /\ (gamePhase' \in {"ended", "broke"} /\ gamePhase \notin {"ended", "broke"}) =>
          /\ bettingState'.wager > 0
          /\ bettingState'.bank =
                IF bettingState'.predictedWinner = winner'
                THEN bettingState.bank + bettingState'.wager
                ELSE bettingState.bank - bettingState'.wager
    /\ (gamePhase = "betting" /\ gamePhase' \notin {"betting", "ready"}) =>
          /\ selectedColor \in Colors
          /\ bettingState'.predictedWinner = selectedColor
          /\ bettingState'.wager = wagerAmount
          /\ 0 < wagerAmount /\ wagerAmount <= bettingState.bank
    /\ (gamePhase' \notin {"ended", "broke"} \/ gamePhase \in {"ended", "broke"}) =>
          \/ bettingState'.bank = bettingState.bank
          \/ gamePhase' = "ready" /\ bettingState'.bank = INITIAL_BANK

\* C32: over any sequence of bets, game ends, restarts and quits the bank
\* is never negative: a bet is accepted only with a selected color and
\* 0 < wager <= bank, a won bet adds the wager and a lost bet subtracts it;
\* after a game end the phase is 'broke' exactly when the new bank is <= 0,
\* so the betting phase is never entered with an empty bank.
C32_BankNeverNegative == []BankInvariant /\ [][BankBookkeeping]_vars

\* The player has lost the rest of the bank on a later bet and is broke.
C32_Witness ==
    /\ gamePhase = "broke"
    /\ bettingState.bank = 0
    /\ bettingState.wager > 0
    /\ bettingState.wager < INITIAL_BANK
    /\ winner # bettingState.predictedWinner

=============================================================================
